---- MODULE Spec2Model ----
(***************************************************************************)
(* Epidemic spread over a seat-proximity contact network:                  *)
(*   - ContactGraphBuilder / SparseContactNetwork (network construction)   *)
(*   - VectorizedSIRSimulator / VectorizedPropagationTree (daily tick)     *)
(*   - start_simulation (the multi-day run)                                *)
(*   - MSTAnalyzer / WCCAnalyzer (graph analysis)                          *)
(*                                                                         *)
(* Real numbers are fixed-point integers: the real x is the integer        *)
(* x * Scale.  Dense indices are 0-based as in the source.                 *)
(***************************************************************************)
EXTENDS Integers, Sequences, FiniteSets, TLC

\* ------------------------------------------------------------------ bounds
\* Fixed-point resolution.
Scale == 100
\* Students of a simulation run (ids 1..RunStudents).
RunStudents == 4
\* Simulated days of a run (a prefix of SimulationConfig.dias_semana).
NumDays == 2
\* Largest num_pacientes_cero of a run.
MaxPacientesCero == 2
\* Network construction inputs: ids, attendance rows of a day, edges of a list.
NetStudents == 3
MaxRows == 3
MaxEdges == 2
\* Nodes of an analysed contact graph / propagation graph.
MstNodes == 4
WccNodes == 3
\* students of the day network of the simulator
SimNodes == 3
\* students on the rosters given to the builder
BuilderStudents == 2
\* calls made on one cache manager
MaxCacheCalls == 4

\* simulation runs sharing one NetworkCacheManager
MaxRuns == 2
\* analysis coordinators: propagation graphs of any shape up to AnalysisNodes
\* nodes, and of two shapes (chain, star) up to RankingNodes nodes
AnalysisNodes == 4
RankingNodes == 12

\* one use of a propagation tree: students of the network, targets of one call
TreeNodes == 3
MaxTargets == 2

\* ----------------------------------------------------------------- helpers
Max2(a, b) == IF a >= b THEN a ELSE b

Min2(a, b) == IF a <= b THEN a ELSE b

Abs(x) == IF x >= 0 THEN x ELSE -x

RECURSIVE SumSeq(_)
SumSeq(s) == IF s = <<>> THEN 0 ELSE Head(s) + SumSeq(Tail(s))

RECURSIVE SortedSeq(_)
\* sorted(S) for a finite set of integers
SortedSeq(S) ==
  IF S = {} THEN <<>>
  ELSE LET m == CHOOSE x \in S : \A y \in S : x <= y
       IN <<m>> \o SortedSeq(S \ {m})

RECURSIVE Concat(_)
\* concatenation of a sequence of sequences
Concat(ss) == IF ss = <<>> THEN <<>> ELSE Head(ss) \o Concat(Tail(ss))

Range(s) == {s[k] : k \in DOMAIN s}

\* position (1-based) of x in the sequence s, which holds it
IndexOf(s, x) == CHOOSE k \in DOMAIN s : s[k] = x

\* ---------------------------------------------------- SparseContactNetwork
\* self.matrix = None
NoMatrix == [shape |-> -1, data |-> <<>>]

\* SparseContactNetwork(): no nodes, empty maps, no matrix
NewSparseContactNetwork ==
  [num_nodes |-> 0, node_to_idx |-> <<>>, idx_to_node |-> <<>>, matrix |-> NoMatrix]

\* EdgeContribution with the reverse direction (j, i, w) left out
EdgeContributionOneWay(e, n2i, i, j) ==
  IF n2i[e[1]] = i /\ n2i[e[2]] = j THEN e[3] ELSE 0

\* the weight edge k of the list adds to the stored entry (i, j): each edge
\* (u, v, w) is appended as (i, j, w) and (j, i, w)
EdgeContribution(e, n2i, i, j) ==
  (IF n2i[e[1]] = i /\ n2i[e[2]] = j THEN e[3] ELSE 0)
  + (IF n2i[e[2]] = i /\ n2i[e[1]] = j THEN e[3] ELSE 0)

\* csr_matrix((data, (row, col))) followed by sum_duplicates(): one stored entry
\* per (i, j) that occurs, holding the sum of its contributions
CsrFromEdges(edges, n2i, n) ==
  LET stored == UNION { {<<n2i[edges[k][1]], n2i[edges[k][2]]>>,
                         <<n2i[edges[k][2]], n2i[edges[k][1]]>>} : k \in DOMAIN edges }
  IN [shape |-> n,
      data  |-> [p \in stored |->
                   SumSeq([k \in DOMAIN edges |->
                             EdgeContribution(edges[k], n2i, p[1], p[2])])]]

\* build_from_edges that numbers the ids in descending id order
BuildFromEdgesDescending(self, edges) ==
  IF edges = <<>>
  THEN [self EXCEPT !.num_nodes = 0, !.matrix = [shape |-> 0, data |-> <<>>]]
  ELSE LET unique_nodes == {edges[k][1] : k \in DOMAIN edges}
                           \cup {edges[k][2] : k \in DOMAIN edges}
           n == Cardinality(unique_nodes)
           listed == [k \in 1 .. n |-> SortedSeq(unique_nodes)[n + 1 - k]]
           n2i == [id \in (DOMAIN self.node_to_idx) \cup unique_nodes |->
                     IF id \in unique_nodes THEN IndexOf(listed, id) - 1
                     ELSE self.node_to_idx[id]]
           i2n == [i \in (DOMAIN self.idx_to_node) \cup (0 .. n - 1) |->
                     IF i \in 0 .. n - 1 THEN listed[i + 1]
                     ELSE self.idx_to_node[i]]
       IN [num_nodes |-> n, node_to_idx |-> n2i, idx_to_node |-> i2n,
           matrix |-> CsrFromEdges(edges, n2i, n)]

\* SparseContactNetwork.build_from_edges, on the instance self
BuildFromEdges(self, edges) ==
  IF edges = <<>>
  THEN [self EXCEPT !.num_nodes = 0, !.matrix = [shape |-> 0, data |-> <<>>]]
  ELSE LET unique_nodes == {edges[k][1] : k \in DOMAIN edges}
                           \cup {edges[k][2] : k \in DOMAIN edges}
           sorted_nodes == SortedSeq(unique_nodes)
           n == Len(sorted_nodes)
           n2i == [id \in (DOMAIN self.node_to_idx) \cup unique_nodes |->
                     IF id \in unique_nodes THEN IndexOf(sorted_nodes, id) - 1
                     ELSE self.node_to_idx[id]]
           i2n == [i \in (DOMAIN self.idx_to_node) \cup (0 .. n - 1) |->
                     IF i \in 0 .. n - 1 THEN sorted_nodes[i + 1]
                     ELSE self.idx_to_node[i]]
       IN [num_nodes |-> n, node_to_idx |-> n2i, idx_to_node |-> i2n,
           matrix |-> CsrFromEdges(edges, n2i, n)]

\* dense view of the matrix: a stored entry's value, 0 elsewhere
Adj(matrix, i, j) == IF <<i, j>> \in DOMAIN matrix.data THEN matrix.data[<<i, j>>] ELSE 0

\* matrix.nnz
Nnz(matrix) == Cardinality(DOMAIN matrix.data)

\* SparseContactNetwork.get_node_count
GetNodeCount(net) == net.num_nodes

\* SparseContactNetwork.get_edge_count
GetEdgeCount(net) == Nnz(net.matrix) \div 2

\* map_ids_to_indices that gives index 0 to an id absent from the network
MapIdsToIndicesAbsentAsZero(net, node_ids) ==
  [k \in DOMAIN node_ids |->
     IF node_ids[k] \in DOMAIN net.node_to_idx THEN net.node_to_idx[node_ids[k]] ELSE 0]

\* SparseContactNetwork.map_ids_to_indices: ids absent from node_to_idx are dropped
MapIdsToIndices(net, node_ids) ==
  LET present == SelectSeq(node_ids, LAMBDA nid : nid \in DOMAIN net.node_to_idx)
  IN [k \in DOMAIN present |-> net.node_to_idx[present[k]]]

\* SparseContactNetwork.map_indices_to_ids
MapIndicesToIds(net, indices) == [k \in DOMAIN indices |-> net.idx_to_node[indices[k]]]

\* ---------------------------------------------------- ContactGraphBuilder
\* ContactGraphBuilder.MAX_PROXIMITY
MAX_PROXIMITY == 1

\* the 1.5 hour cap of min(duracion, 1.5)
DurationCap == (3 * Scale) \div 2

\* np.sqrt of a squared seat distance, in fixed point
SqrtFP(d2) == CHOOSE r \in 0 .. (d2 * Scale) :
                r * r <= d2 * Scale * Scale /\ (r + 1) * (r + 1) > d2 * Scale * Scale

\* (1.0 / (1.0 + dist_euclidean)) * min(duracion, 1.5)
ContactWeight(d2, duracion) ==
  (Scale * Min2(duracion, DurationCap)) \div (Scale + SqrtFP(d2))

\* UpperPairs with the diagonal: np.triu(..., k=0)
UpperPairsWithDiagonal(n) ==
  LET keys == SortedSeq({ p[1] * (n + 1) + p[2] :
                          p \in {q \in (1 .. n) \X (1 .. n) : q[1] <= q[2]} })
  IN [k \in DOMAIN keys |-> <<keys[k] \div (n + 1), keys[k] % (n + 1)>>]

\* np.where(np.triu(ones, k=1)): the index pairs i < j in row-major order
UpperPairs(n) ==
  LET keys == SortedSeq({ p[1] * (n + 1) + p[2] :
                          p \in {q \in (1 .. n) \X (1 .. n) : q[1] < q[2]} })
  IN [k \in DOMAIN keys |-> <<keys[k] \div (n + 1), keys[k] % (n + 1)>>]

\* ContactGraphBuilder._calculate_edges_vectorized: personas is the sequence of
\* rows (persona_id, fila_asiento, columna_asiento) of one class session
CalculateEdgesVectorized(personas, duracion) ==
  LET n == Len(personas)
      dfila(p) == personas[p[1]].fila_asiento - personas[p[2]].fila_asiento
      dcol(p)  == personas[p[1]].columna_asiento - personas[p[2]].columna_asiento
      max_dist(p) == Max2(Abs(dfila(p)), Abs(dcol(p)))
      hits == SelectSeq(UpperPairs(n), LAMBDA p : max_dist(p) <= MAX_PROXIMITY)
  IN IF n < 2 THEN <<>>
     ELSE [k \in DOMAIN hits |->
             <<personas[hits[k][1]].persona_id, personas[hits[k][2]].persona_id,
               ContactWeight(dfila(hits[k]) * dfila(hits[k]) + dcol(hits[k]) * dcol(hits[k]),
                             duracion)>>]

\* df_dia.groupby('seccion_id'): the sessions in ascending id, rows in table order
GroupBySeccion(df_dia) ==
  LET secciones == SortedSeq({df_dia[k].seccion_id : k \in DOMAIN df_dia})
  IN [s \in DOMAIN secciones |->
        SelectSeq(df_dia, LAMBDA r : r.seccion_id = secciones[s])]

\* the class edges of every session of the day, concatenated (all_edges)
AllClassEdges(df_dia) ==
  LET groups == GroupBySeccion(df_dia)
  IN Concat([s \in DOMAIN groups |->
               CalculateEdgesVectorized(groups[s], groups[s][1].duracion_horas)])

\* nx.Graph: the nodes in insertion order and the undirected edges in insertion
\* order, each edge [u, v, peso]
EmptyGraph == [nodes |-> <<>>, edges |-> <<>>]

\* Graph.has_edge(u, v)
HasEdge(G, u, v) == \E k \in DOMAIN G.edges : {G.edges[k].u, G.edges[k].v} = {u, v}

\* G[u][v]['peso']
EdgePeso(G, u, v) ==
  G.edges[CHOOSE k \in DOMAIN G.edges : {G.edges[k].u, G.edges[k].v} = {u, v}].peso

\* Graph.add_edge(u, v, peso=peso): a new edge, with its nodes, or the peso of
\* the edge already there
AddEdge(G, u, v, peso) ==
  IF HasEdge(G, u, v)
  THEN [nodes |-> G.nodes,
        edges |-> [k \in DOMAIN G.edges |->
                     IF {G.edges[k].u, G.edges[k].v} = {u, v}
                     THEN [G.edges[k] EXCEPT !.peso = peso] ELSE G.edges[k]]]
  ELSE [nodes |-> G.nodes \o (IF u \in Range(G.nodes) THEN <<>> ELSE <<u>>)
                          \o (IF v \in Range(G.nodes) \/ v = u THEN <<>> ELSE <<v>>),
        edges |-> Append(G.edges, [u |-> u, v |-> v, peso |-> peso])]

\* G.edges(data=True): node by node in insertion order, the edges of the node
\* to the nodes not yet visited, each as (node, neighbour, peso)
NxEdges(G) ==
  Concat([a \in DOMAIN G.nodes |->
            LET visited == {G.nodes[b] : b \in 1 .. a - 1}
                own == SelectSeq(G.edges,
                         LAMBDA e : /\ G.nodes[a] \in {e.u, e.v}
                                    /\ {e.u, e.v} \cap visited = {})
            IN [k \in DOMAIN own |->
                  <<G.nodes[a],
                    IF own[k].u = G.nodes[a] THEN own[k].v ELSE own[k].u,
                    own[k].peso>>]])

RECURSIVE AddWeightedEdgesFrom(_, _)
\* G.add_weighted_edges_from(edges, weight='peso')
AddWeightedEdgesFrom(G, edges) ==
  IF edges = <<>> THEN G
  ELSE AddWeightedEdgesFrom(AddEdge(G, Head(edges)[1], Head(edges)[2], Head(edges)[3]),
                            Tail(edges))

\* ContactGraphBuilder.build_class_graph
BuildClassGraph(df_clase) ==
  IF Len(df_clase) = 0 THEN EmptyGraph
  ELSE AddWeightedEdgesFrom(EmptyGraph,
         CalculateEdgesVectorized(df_clase, df_clase[1].duracion_horas))

RECURSIVE MergeClassEdges(_, _)
\* build_daily_graph: the edges of a class graph merged into the graph of the
\* day, keeping the larger peso
MergeClassEdges(G_dia, edges) ==
  IF edges = <<>> THEN G_dia
  ELSE LET u == Head(edges)[1]
           v == Head(edges)[2]
           peso == Head(edges)[3]
       IN MergeClassEdges(
            IF HasEdge(G_dia, u, v)
            THEN AddEdge(G_dia, u, v, Max2(EdgePeso(G_dia, u, v), peso))
            ELSE AddEdge(G_dia, u, v, peso),
            Tail(edges))

RECURSIVE MergeClassGraphs(_, _)
MergeClassGraphs(G_dia, groups) ==
  IF groups = <<>> THEN G_dia
  ELSE MergeClassGraphs(MergeClassEdges(G_dia, NxEdges(BuildClassGraph(Head(groups)))),
                        Tail(groups))

\* ContactGraphBuilder.build_daily_graph
BuildDailyGraph(df_dia) == MergeClassGraphs(EmptyGraph, GroupBySeccion(df_dia))

RECURSIVE MergeMaxEdges(_, _)
\* edge_dict[key] = max(edge_dict.get(key, 0), w) with key = (min(u,v), max(u,v));
\* edge_dict is kept as the sequence of its items in insertion order
MergeMaxEdges(all_edges, edge_dict) ==
  IF all_edges = <<>> THEN edge_dict
  ELSE LET e == Head(all_edges)
           key == <<Min2(e[1], e[2]), Max2(e[1], e[2])>>
           at == {k \in DOMAIN edge_dict : <<edge_dict[k][1], edge_dict[k][2]>> = key}
       IN MergeMaxEdges(Tail(all_edges),
            IF at = {} THEN Append(edge_dict, <<key[1], key[2], Max2(0, e[3])>>)
            ELSE [edge_dict EXCEPT ![CHOOSE k \in at : TRUE] =
                    <<key[1], key[2], Max2(edge_dict[CHOOSE k \in at : TRUE][3], e[3])>>])

\* ContactGraphBuilder.build_sparse_daily_network
BuildSparseDailyNetwork(df_dia) ==
  BuildFromEdges(NewSparseContactNetwork, MergeMaxEdges(AllClassEdges(df_dia), <<>>))

\* ------------------------------------------------------ NetworkCacheManager
\* NetworkCacheManager(graph_builder): empty cache, zero counters
NewNetworkCacheManager == [cache |-> <<>>, cache_hits |-> 0, cache_misses |-> 0]

\* get_or_build that builds and stores on every call
GetOrBuildAlwaysBuild(self, dia_nombre, df_dia) ==
  LET network == BuildSparseDailyNetwork(df_dia)
  IN [manager |-> [cache |-> [d \in (DOMAIN self.cache) \cup {dia_nombre} |->
                                IF d = dia_nombre THEN network ELSE self.cache[d]],
                   cache_hits |-> self.cache_hits,
                   cache_misses |-> self.cache_misses + 1],
      network |-> network,
      builder_calls |-> 1]

\* get_or_build that counts a miss, not a hit, when the label is cached
GetOrBuildMissOnHit(self, dia_nombre, df_dia) ==
  IF dia_nombre \in DOMAIN self.cache
  THEN [manager |-> [self EXCEPT !.cache_misses = @ + 1],
        network |-> self.cache[dia_nombre],
        builder_calls |-> 0]
  ELSE LET network == BuildSparseDailyNetwork(df_dia)
       IN [manager |-> [cache |-> [d \in (DOMAIN self.cache) \cup {dia_nombre} |->
                                     IF d = dia_nombre THEN network ELSE self.cache[d]],
                        cache_hits |-> self.cache_hits,
                        cache_misses |-> self.cache_misses + 1],
           network |-> network,
           builder_calls |-> 1]

\* NetworkCacheManager.get_or_build: the manager after the call, the network
\* returned, and the number of calls it made to build_sparse_daily_network
GetOrBuild(self, dia_nombre, df_dia) ==
  IF dia_nombre \in DOMAIN self.cache
  THEN [manager |-> [self EXCEPT !.cache_hits = @ + 1],
        network |-> self.cache[dia_nombre],
        builder_calls |-> 0]
  ELSE LET network == BuildSparseDailyNetwork(df_dia)
       IN [manager |-> [cache |-> [d \in (DOMAIN self.cache) \cup {dia_nombre} |->
                                     IF d = dia_nombre THEN network ELSE self.cache[d]],
                        cache_hits |-> self.cache_hits,
                        cache_misses |-> self.cache_misses + 1],
           network |-> network,
           builder_calls |-> 1]

\* clear_cache that empties the cache and keeps the counters
ClearCacheKeepCounters(self) == [self EXCEPT !.cache = <<>>]

\* NetworkCacheManager.clear_cache
ClearCache(self) == [cache |-> <<>>, cache_hits |-> 0, cache_misses |-> 0]

\* simulator.set_contact_matrix(sparse_network.get_matrix()) binds the matrix
\* object of the cached network, without a copy: what the simulator holds as
\* contact_matrix after its calls is the matrix of the cache entry
SharedMatrix(self, dia_nombre, contact_matrix) ==
  [self EXCEPT !.cache[dia_nombre].matrix = contact_matrix]

\* NetworkCacheManager.get_cache_stats; hit_rate is a percentage
GetCacheStats(self) ==
  LET total == self.cache_hits + self.cache_misses
  IN [hits |-> self.cache_hits,
      misses |-> self.cache_misses,
      hit_rate |-> IF total > 0 THEN (self.cache_hits * 100 * Scale) \div total ELSE 0,
      cached_days |-> Cardinality(DOMAIN self.cache)]

\* --------------------------------------------------- VectorizedSIRSimulator
\* VectorizedSIRSimulator(beta, num_nodes)
NewSimulator(b, num_nodes) ==
  [beta |-> b, num_nodes |-> num_nodes,
   states |-> [i \in 0 .. num_nodes - 1 |-> 0],
   susceptible_mask |-> [i \in 0 .. num_nodes - 1 |-> TRUE],
   contact_matrix |-> NoMatrix]

\* InitializeInfections without the reset of the mask
InitializeInfectionsKeepMask(self, patient_zero_indices) ==
  [self EXCEPT
     !.states = [i \in 0 .. self.num_nodes - 1 |->
                   IF i \in Range(patient_zero_indices) THEN 1 ELSE 0],
     !.susceptible_mask = [i \in 0 .. self.num_nodes - 1 |->
                             IF i \in Range(patient_zero_indices) THEN FALSE ELSE @[i]]]

\* InitializeInfections without the reset of the state vector
InitializeInfectionsKeepStates(self, patient_zero_indices) ==
  [self EXCEPT
     !.states = [i \in 0 .. self.num_nodes - 1 |->
                   IF i \in Range(patient_zero_indices) THEN 1 ELSE @[i]],
     !.susceptible_mask = [i \in 0 .. self.num_nodes - 1 |->
                             i \notin Range(patient_zero_indices)]]

\* VectorizedSIRSimulator.initialize_infections
InitializeInfections(self, patient_zero_indices) ==
  [self EXCEPT
     !.states = [i \in 0 .. self.num_nodes - 1 |->
                   IF i \in Range(patient_zero_indices) THEN 1 ELSE 0],
     !.susceptible_mask = [i \in 0 .. self.num_nodes - 1 |->
                             i \notin Range(patient_zero_indices)]]

\* VectorizedSIRSimulator.set_contact_matrix
SetContactMatrix(self, matrix) == [self EXCEPT !.contact_matrix = matrix]

\* VectorizedSIRSimulator.get_infected_indices: np.where(states == 1)[0], ascending
GetInfectedIndices(self) ==
  SortedSeq({i \in 0 .. self.num_nodes - 1 : self.states[i] = 1})

RECURSIVE ExpSeries(_, _, _)
\* the terms x^k / k! of the exponential series from term k on, x >= 0
ExpSeries(x, k, term) ==
  IF term = 0 THEN 0
  ELSE term + ExpSeries(x, k + 1, (term * x) \div ((k + 1) * Scale))

\* np.exp(x) in fixed point
ExpFP(x) ==
  IF x >= 0 THEN ExpSeries(x, 0, Scale)
  ELSE (Scale * Scale) \div ExpSeries(-x, 0, Scale)

\* exposure = contact_matrix @ infected: the stored entries of row i times infected[j]
Exposure(self, i) ==
  SumSeq([k \in 1 .. self.contact_matrix.shape |->
            Adj(self.contact_matrix, i, k - 1)
            * (IF self.states[k - 1] = 1 THEN 1 ELSE 0)])

\* TransmissionP with beta left out of the exponent
TransmissionPNoBeta(self, i) == Scale - ExpFP(-Exposure(self, i))

\* P = 1.0 - np.exp(-self.beta * exposure)
TransmissionP(self, i) == Scale - ExpFP(-((self.beta * Exposure(self, i)) \div Scale))

\* NewInfections with <= in place of <
NewInfectionsAtMost(self, random_buffer) ==
  {i \in 0 .. self.num_nodes - 1 :
     random_buffer[i] <= TransmissionP(self, i) /\ self.susceptible_mask[i]}

\* NewInfections without the susceptible mask
NewInfectionsIgnoreMask(self, random_buffer) ==
  {i \in 0 .. self.num_nodes - 1 : random_buffer[i] < TransmissionP(self, i)}

\* the indices newly infected by a tick whose random buffer is random_buffer
NewInfections(self, random_buffer) ==
  {i \in 0 .. self.num_nodes - 1 :
     random_buffer[i] < TransmissionP(self, i) /\ self.susceptible_mask[i]}

\* simulate_tick that takes an exposure of 1 for every node when no matrix is bound
SimulateTickUnboundExposure(self, random_buffer) ==
  LET new_infections ==
        IF self.contact_matrix = NoMatrix
        THEN {i \in 0 .. self.num_nodes - 1 :
                random_buffer[i] < Scale - ExpFP(-self.beta) /\ self.susceptible_mask[i]}
        ELSE NewInfections(self, random_buffer)
  IN [sim |-> [self EXCEPT
                 !.states = [i \in 0 .. self.num_nodes - 1 |->
                               IF i \in new_infections THEN 1 ELSE @[i]],
                 !.susceptible_mask = [i \in 0 .. self.num_nodes - 1 |->
                               IF i \in new_infections THEN FALSE ELSE @[i]]],
      num |-> Cardinality(new_infections),
      new_indices |-> SortedSeq(new_infections)]

\* simulate_tick that multiplies the contact matrix by beta in place before the
\* product with the infected vector
SimulateTickScalesMatrix(self, random_buffer) ==
  IF self.contact_matrix = NoMatrix
  THEN [sim |-> self, num |-> 0, new_indices |-> <<>>]
  ELSE LET new_infections == NewInfections(self, random_buffer)
       IN [sim |-> [self EXCEPT
                      !.states = [i \in 0 .. self.num_nodes - 1 |->
                                    IF i \in new_infections THEN 1 ELSE @[i]],
                      !.susceptible_mask = [i \in 0 .. self.num_nodes - 1 |->
                                    IF i \in new_infections THEN FALSE ELSE @[i]],
                      !.contact_matrix.data =
                         [q \in DOMAIN @ |-> (self.beta * @[q]) \div Scale]],
           num |-> Cardinality(new_infections),
           new_indices |-> SortedSeq(new_infections)]

\* VectorizedSIRSimulator.simulate_tick: the simulator after the tick and the
\* pair (len(new_indices), new_indices) it returns
SimulateTick(self, random_buffer) ==
  IF self.contact_matrix = NoMatrix
  THEN [sim |-> self, num |-> 0, new_indices |-> <<>>]
  ELSE LET new_infections == NewInfections(self, random_buffer)
       IN [sim |-> [self EXCEPT
                      !.states = [i \in 0 .. self.num_nodes - 1 |->
                                    IF i \in new_infections THEN 1 ELSE @[i]],
                      !.susceptible_mask = [i \in 0 .. self.num_nodes - 1 |->
                                    IF i \in new_infections THEN FALSE ELSE @[i]]],
           num |-> Cardinality(new_infections),
           new_indices |-> SortedSeq(new_infections)]

\* ------------------------------------------------ VectorizedPropagationTree
\* VectorizedPropagationTree(): four empty parallel lists
NewPropagationTree == [sources |-> <<>>, targets |-> <<>>, weights |-> <<>>, days |-> <<>>]

\* contact_matrix[target_idx].indices: the stored columns of the row, ascending
RowIndices(matrix, i) == SortedSeq({p[2] : p \in {q \in DOMAIN matrix.data : q[1] = i}})

\* RecordOne that looks at the first neighbour of the row only
RecordOneFirstNeighbourOnly(self, sources, target_idx, contact_matrix, day_name, idx_to_node) ==
  LET row == RowIndices(contact_matrix, target_idx)
  IN IF row # <<>> /\ Head(row) \in Range(sources)
     THEN [sources |-> Append(self.sources, idx_to_node[Head(row)]),
           targets |-> Append(self.targets, idx_to_node[target_idx]),
           weights |-> Append(self.weights, contact_matrix.data[<<target_idx, Head(row)>>]),
           days    |-> Append(self.days, day_name)]
     ELSE self

RECURSIVE AppendAllHits(_, _, _, _, _, _)
AppendAllHits(self, hits, target_idx, contact_matrix, day_name, idx_to_node) ==
  IF hits = <<>> THEN self
  ELSE AppendAllHits(
         [sources |-> Append(self.sources, idx_to_node[Head(hits)]),
          targets |-> Append(self.targets, idx_to_node[target_idx]),
          weights |-> Append(self.weights, contact_matrix.data[<<target_idx, Head(hits)>>]),
          days    |-> Append(self.days, day_name)],
         Tail(hits), target_idx, contact_matrix, day_name, idx_to_node)

\* RecordOne without the break: one record per neighbour that is in sources
RecordOneNoBreak(self, sources, target_idx, contact_matrix, day_name, idx_to_node) ==
  AppendAllHits(self,
                SelectSeq(RowIndices(contact_matrix, target_idx),
                          LAMBDA neighbor_idx : neighbor_idx \in Range(sources)),
                target_idx, contact_matrix, day_name, idx_to_node)

\* RecordOne that takes the neighbour of the heaviest contact among those in sources
RecordOneHeaviest(self, sources, target_idx, contact_matrix, day_name, idx_to_node) ==
  LET hits == {j \in Range(RowIndices(contact_matrix, target_idx)) : j \in Range(sources)}
      best == CHOOSE j \in hits :
                \A j2 \in hits :
                  \/ contact_matrix.data[<<target_idx, j>>] > contact_matrix.data[<<target_idx, j2>>]
                  \/ /\ contact_matrix.data[<<target_idx, j>>] = contact_matrix.data[<<target_idx, j2>>]
                     /\ j <= j2
  IN IF hits = {} THEN self
     ELSE [sources |-> Append(self.sources, idx_to_node[best]),
           targets |-> Append(self.targets, idx_to_node[target_idx]),
           weights |-> Append(self.weights, contact_matrix.data[<<target_idx, best>>]),
           days    |-> Append(self.days, day_name)]

\* RecordOne that records the weight of the first stored entry of the row,
\* neighbor_weights[0], whatever the position of the source in the row
RecordOneFirstWeight(self, sources, target_idx, contact_matrix, day_name, idx_to_node) ==
  LET row == RowIndices(contact_matrix, target_idx)
      hits == SelectSeq(row, LAMBDA neighbor_idx : neighbor_idx \in Range(sources))
  IN IF hits = <<>> THEN self
     ELSE [sources |-> Append(self.sources, idx_to_node[hits[1]]),
           targets |-> Append(self.targets, idx_to_node[target_idx]),
           weights |-> Append(self.weights, contact_matrix.data[<<target_idx, row[1]>>]),
           days    |-> Append(self.days, day_name)]

\* the body of the loop over targets: the first neighbour of the row that is in
\* sources gives the one record of this target
RecordOne(self, sources, target_idx, contact_matrix, day_name, idx_to_node) ==
  LET hits == SelectSeq(RowIndices(contact_matrix, target_idx),
                        LAMBDA neighbor_idx : neighbor_idx \in Range(sources))
  IN IF hits = <<>> THEN self
     ELSE [sources |-> Append(self.sources, idx_to_node[hits[1]]),
           targets |-> Append(self.targets, idx_to_node[target_idx]),
           weights |-> Append(self.weights, contact_matrix.data[<<target_idx, hits[1]>>]),
           days    |-> Append(self.days, day_name)]

RECURSIVE RecordTransmissions(_, _, _, _, _, _)
\* VectorizedPropagationTree.record_transmissions
RecordTransmissions(self, sources, targets, contact_matrix, day_name, idx_to_node) ==
  IF targets = <<>> THEN self
  ELSE RecordTransmissions(
         RecordOne(self, sources, Head(targets), contact_matrix, day_name, idx_to_node),
         sources, Tail(targets), contact_matrix, day_name, idx_to_node)

\* VectorizedPropagationTree.get_transmission_count
GetTransmissionCount(self) == Len(self.sources)

RECURSIVE Dedup(_, _)
\* the distinct elements of s in order of first occurrence (insertion order of keys)
Dedup(s, seen) ==
  IF s = <<>> THEN <<>>
  ELSE IF Head(s) \in seen THEN Dedup(Tail(s), seen)
       ELSE <<Head(s)>> \o Dedup(Tail(s), seen \cup {Head(s)})

\* VectorizedPropagationTree.to_networkx: a DiGraph as its nodes in insertion
\* order and its edge attributes keyed by (source, target); a later add_edge of
\* the same pair overwrites the attributes
ToNetworkx(self) ==
  LET pairs == {<<self.sources[k], self.targets[k]>> : k \in DOMAIN self.sources}
      last(p) == CHOOSE k \in DOMAIN self.sources :
                   /\ <<self.sources[k], self.targets[k]>> = p
                   /\ \A m \in DOMAIN self.sources :
                        <<self.sources[m], self.targets[m]>> = p => m <= k
  IN [nodes |-> Dedup(Concat([k \in DOMAIN self.sources |->
                                <<self.sources[k], self.targets[k]>>]), {}),
      edges |-> [p \in pairs |-> [peso |-> self.weights[last(p)], dia |-> self.days[last(p)]]]]

\* G.in_degree(n) / G.out_degree(n) of a DiGraph
InDegree(G, n) == Cardinality({p \in DOMAIN G.edges : p[2] = n})

OutDegree(G, n) == Cardinality({p \in DOMAIN G.edges : p[1] = n})

\* -------------------------------------------------------------- WCCAnalyzer
RECURSIVE Reach(_, _)
\* the nodes joined to S by the pairs, direction ignored
Reach(pairs, S) ==
  LET T == S \cup {p[2] : p \in {q \in pairs : q[1] \in S}}
             \cup {p[1] : p \in {q \in pairs : q[2] \in S}}
  IN IF T = S THEN S ELSE Reach(pairs, T)

RECURSIVE ConnectedComponents(_, _, _)
\* nx.connected_components: the components in the order their first node is met
ConnectedComponents(nodes, pairs, seen) ==
  IF nodes = <<>> THEN <<>>
  ELSE IF Head(nodes) \in seen THEN ConnectedComponents(Tail(nodes), pairs, seen)
       ELSE LET c == Reach(pairs, {Head(nodes)})
            IN <<c>> \o ConnectedComponents(Tail(nodes), pairs, seen \cup c)

RECURSIVE InsertByLenDesc(_, _)
InsertByLenDesc(sorted, c) ==
  IF sorted = <<>> THEN <<c>>
  ELSE IF Cardinality(c) > Cardinality(Head(sorted)) THEN <<c>> \o sorted
       ELSE <<Head(sorted)>> \o InsertByLenDesc(Tail(sorted), c)

RECURSIVE SortByLenDesc(_, _)
\* sorted(componentes, key=len, reverse=True): stable
SortByLenDesc(cs, acc) ==
  IF cs = <<>> THEN acc ELSE SortByLenDesc(Tail(cs), InsertByLenDesc(acc, Head(cs)))

RECURSIVE MaxOfSeq(_)
MaxOfSeq(s) == IF Len(s) = 1 THEN s[1] ELSE Max2(Head(s), MaxOfSeq(Tail(s)))

\* WCCAnalyze that returns the components in the order they were found
WCCAnalyzeUnsortedComponents(graph) ==
  IF Len(graph.nodes) = 0
  THEN [num_componentes |-> 0, tamanos |-> <<>>, componente_gigante |-> 0,
        componentes |-> <<>>]
  ELSE LET componentes == ConnectedComponents(graph.nodes, DOMAIN graph.edges, {})
           ordered == SortByLenDesc(componentes, <<>>)
       IN [num_componentes |-> Len(componentes),
           tamanos |-> [k \in DOMAIN ordered |-> Cardinality(ordered[k])],
           componente_gigante |->
             MaxOfSeq([k \in DOMAIN componentes |-> Cardinality(componentes[k])]),
           componentes |-> componentes]

\* WCCAnalyzer.analyze (without student data)
WCCAnalyze(graph) ==
  IF Len(graph.nodes) = 0
  THEN [num_componentes |-> 0, tamanos |-> <<>>, componente_gigante |-> 0,
        componentes |-> <<>>]
  ELSE LET componentes == ConnectedComponents(graph.nodes, DOMAIN graph.edges, {})
           ordered == SortByLenDesc(componentes, <<>>)
       IN [num_componentes |-> Len(componentes),
           tamanos |-> [k \in DOMAIN ordered |-> Cardinality(ordered[k])],
           componente_gigante |->
             MaxOfSeq([k \in DOMAIN componentes |-> Cardinality(componentes[k])]),
           componentes |-> ordered]

\* CalculateFragmentation dividing by the number of components
CalculateFragmentationByComponents(results) ==
  IF results.num_componentes = 0 THEN 0
  ELSE Scale - ((results.componente_gigante * Scale) \div results.num_componentes)

\* WCCAnalyzer._calculate_fragmentation
CalculateFragmentation(results) ==
  IF results.num_componentes = 0 THEN 0
  ELSE LET total_nodos == SumSeq(results.tamanos)
       IN IF total_nodos = 0 THEN 0
          ELSE Scale - ((results.componente_gigante * Scale) \div total_nodos)

\* fragmentacion_index of get_wcc
GetWccFragmentation(wcc) ==
  IF SumSeq(wcc.tamanos) > 0
  THEN Scale - ((wcc.componente_gigante * Scale) \div SumSeq(wcc.tamanos))
  ELSE 0

\* -------------------------------------------------------------- MSTAnalyzer
\* the contact graph graph[u][v]['peso']
GraphPeso(graph, u, v) ==
  LET k == CHOOSE m \in DOMAIN graph.edges :
             {graph.edges[m].u, graph.edges[m].v} = {u, v}
  IN graph.edges[k].peso

\* 1e10, the value of 1.0 / (0 + 1e-10): above the inverse of every weight >= 1/Scale
InverseOfZero == Scale * Scale * Scale

\* MstWeight that ignores the weight mode: the original weight in every mode
MstWeightAlwaysDirect(weight_mode, peso_original) == [num |-> peso_original, den |-> 1]

\* mst_weight as an exact fraction num/den (den > 0) of fixed-point units; the
\* 1e-10 of 'inverse' only decides the weight 0
MstWeight(weight_mode, peso_original) ==
  IF weight_mode = "inverse"
  THEN IF peso_original > 0 THEN [num |-> Scale * Scale, den |-> peso_original]
       ELSE IF peso_original = 0 THEN [num |-> InverseOfZero, den |-> 1]
       ELSE [num |-> -(Scale * Scale), den |-> -peso_original]
  ELSE IF weight_mode = "negative" THEN [num |-> -peso_original, den |-> 1]
  ELSE [num |-> peso_original, den |-> 1]

FracLess(a, b) == a.num * b.den < b.num * a.den

\* MSTAnalyzer._prepare_graph: a copy whose edges also carry mst_weight
PrepareGraph(weight_mode, graph) ==
  [nodes |-> graph.nodes,
   edges |-> [k \in DOMAIN graph.edges |->
                [u |-> graph.edges[k].u, v |-> graph.edges[k].v,
                 peso |-> graph.edges[k].peso,
                 mst_weight |-> MstWeight(weight_mode, graph.edges[k].peso)]]]

RECURSIVE InsertByMstWeight(_, _)
InsertByMstWeight(sorted, e) ==
  IF sorted = <<>> THEN <<e>>
  ELSE IF FracLess(e.mst_weight, Head(sorted).mst_weight) THEN <<e>> \o sorted
       ELSE <<Head(sorted)>> \o InsertByMstWeight(Tail(sorted), e)

RECURSIVE SortByMstWeight(_, _)
\* sorted(edges, key=mst_weight): stable, ties keep the iteration order
SortByMstWeight(edges, acc) ==
  IF edges = <<>> THEN acc
  ELSE SortByMstWeight(Tail(edges), InsertByMstWeight(acc, Head(edges)))

RECURSIVE KruskalEdgesNoUnion(_, _, _)
\* KruskalEdges that never merges the subtrees of a kept edge
KruskalEdgesNoUnion(sorted, subtrees, acc) ==
  IF sorted = <<>> THEN acc
  ELSE LET e == Head(sorted)
       IN IF subtrees[e.u] # subtrees[e.v]
          THEN KruskalEdgesNoUnion(Tail(sorted), subtrees, Append(acc, e))
          ELSE KruskalEdgesNoUnion(Tail(sorted), subtrees, acc)

RECURSIVE KruskalEdges(_, _, _)
\* kruskal_mst_edges: an edge is kept when its ends are in different subtrees
KruskalEdges(sorted, subtrees, acc) ==
  IF sorted = <<>> THEN acc
  ELSE LET e == Head(sorted)
       IN IF subtrees[e.u] # subtrees[e.v]
          THEN KruskalEdges(Tail(sorted),
                 [x \in DOMAIN subtrees |->
                    IF subtrees[x] = subtrees[e.v] THEN subtrees[e.u] ELSE subtrees[x]],
                 Append(acc, e))
          ELSE KruskalEdges(Tail(sorted), subtrees, acc)

\* nx.minimum_spanning_tree(G, weight='mst_weight', algorithm='kruskal'): every
\* node of G and the Kruskal edges
MinimumSpanningTree(G) ==
  [nodes |-> G.nodes,
   edges |-> KruskalEdges(SortByMstWeight(G.edges, <<>>),
                          [x \in Range(G.nodes) |-> x], <<>>)]

\* G.subgraph(component): the nodes and edges inside the component
Subgraph(G, component) ==
  [nodes |-> SelectSeq(G.nodes, LAMBDA x : x \in component),
   edges |-> SelectSeq(G.edges, LAMBDA e : e.u \in component /\ e.v \in component)]

EdgePairs(G) == {<<G.edges[k].u, G.edges[k].v>> : k \in DOMAIN G.edges}

\* nx.is_connected
IsConnected(G) == Len(ConnectedComponents(G.nodes, EdgePairs(G), {})) = 1

RECURSIVE UnionOfComponentTreesNoSingletons(_, _, _)
\* UnionOfComponentTrees without the add_node of a single-node component
UnionOfComponentTreesNoSingletons(G, components, mst) ==
  IF components = <<>> THEN mst
  ELSE LET subgraph == Subgraph(G, Head(components))
           sub_mst == MinimumSpanningTree(subgraph)
       IN UnionOfComponentTreesNoSingletons(G, Tail(components),
            IF Len(subgraph.nodes) > 1
            THEN [nodes |-> Dedup(mst.nodes \o Concat([k \in DOMAIN sub_mst.edges |->
                                    <<sub_mst.edges[k].u, sub_mst.edges[k].v>>]), {}),
                  edges |-> mst.edges \o sub_mst.edges]
            ELSE mst)

RECURSIVE UnionOfComponentTrees(_, _, _)
\* the loop over the components of a disconnected graph: add_edges_from of each
\* component's tree, add_node of a single-node component
UnionOfComponentTrees(G, components, mst) ==
  IF components = <<>> THEN mst
  ELSE LET subgraph == Subgraph(G, Head(components))
           sub_mst == MinimumSpanningTree(subgraph)
       IN UnionOfComponentTrees(G, Tail(components),
            IF Len(subgraph.nodes) > 1
            THEN [nodes |-> Dedup(mst.nodes \o Concat([k \in DOMAIN sub_mst.edges |->
                                    <<sub_mst.edges[k].u, sub_mst.edges[k].v>>]), {}),
                  edges |-> mst.edges \o sub_mst.edges]
            ELSE [nodes |-> Dedup(Append(mst.nodes, subgraph.nodes[1]), {}),
                  edges |-> mst.edges])

\* RestoreWeights that leaves the construction weight under peso
RestoreWeightsTransformed(mst, graph) ==
  [nodes |-> mst.nodes,
   edges |-> [k \in DOMAIN mst.edges |->
                [u |-> mst.edges[k].u, v |-> mst.edges[k].v,
                 peso |-> mst.edges[k].mst_weight.num \div mst.edges[k].mst_weight.den]]]

\* "Restaurar pesos originales": peso from the input graph, mst_weight deleted
RestoreWeights(mst, graph) ==
  [nodes |-> mst.nodes,
   edges |-> [k \in DOMAIN mst.edges |->
                [u |-> mst.edges[k].u, v |-> mst.edges[k].v,
                 peso |-> GraphPeso(graph, mst.edges[k].u, mst.edges[k].v)]]]

\* MSTAnalyzer._calculate_total_weight
CalculateTotalWeight(mst) ==
  IF Len(mst.edges) = 0 THEN 0
  ELSE SumSeq([k \in DOMAIN mst.edges |-> mst.edges[k].peso])

\* MSTAnalyzer._calculate_avg_weight
CalculateAvgWeight(mst) ==
  IF Len(mst.edges) = 0 THEN 0 ELSE CalculateTotalWeight(mst) \div Len(mst.edges)

RECURSIVE InsertByPesoDesc(_, _)
InsertByPesoDesc(sorted, e) ==
  IF sorted = <<>> THEN <<e>>
  ELSE IF e[3] > Head(sorted)[3] THEN <<e>> \o sorted
       ELSE <<Head(sorted)>> \o InsertByPesoDesc(Tail(sorted), e)

RECURSIVE SortByPesoDesc(_, _)
SortByPesoDesc(es, acc) ==
  IF es = <<>> THEN acc ELSE SortByPesoDesc(Tail(es), InsertByPesoDesc(acc, Head(es)))

\* MSTAnalyzer._find_critical_edges: (u, v, peso) of every tree edge, heaviest first
FindCriticalEdges(mst) ==
  SortByPesoDesc([k \in DOMAIN mst.edges |->
                    <<mst.edges[k].u, mst.edges[k].v, mst.edges[k].peso>>], <<>>)

\* MSTAnalyzer._calculate_reduction_ratio
CalculateReductionRatio(original, mst) ==
  IF Len(original.edges) = 0 THEN 0
  ELSE Scale - ((Len(mst.edges) * Scale) \div Len(original.edges))

\* the tree built by analyze before the weights are restored
BuildMst(G_weighted) ==
  IF IsConnected(G_weighted) THEN MinimumSpanningTree(G_weighted)
  ELSE UnionOfComponentTrees(G_weighted,
         ConnectedComponents(G_weighted.nodes, EdgePairs(G_weighted), {}),
         [nodes |-> <<>>, edges |-> <<>>])

\* what nx.is_connected raises on a graph without nodes
NetworkXPointlessConcept == [raised |-> "NetworkXPointlessConcept"]

\* MSTAnalyze without the early return for a graph without nodes
MSTAnalyzeWithoutEmptyCheck(weight_mode, graph) ==
  IF Len(graph.nodes) = 0 THEN NetworkXPointlessConcept
  ELSE LET G_weighted == PrepareGraph(weight_mode, graph)
           mst == RestoreWeights(BuildMst(G_weighted), graph)
       IN [mst |-> mst,
           num_componentes |->
             IF IsConnected(G_weighted) THEN 1
             ELSE Len(ConnectedComponents(G_weighted.nodes, EdgePairs(G_weighted), {})),
           total_weight |-> CalculateTotalWeight(mst),
           avg_weight |-> CalculateAvgWeight(mst),
           critical_edges |-> FindCriticalEdges(mst),
           reduction_ratio |-> CalculateReductionRatio(graph, mst)]

\* MSTAnalyzer(weight_mode).analyze
MSTAnalyze(weight_mode, graph) ==
  IF Len(graph.nodes) = 0
  THEN [mst |-> [nodes |-> <<>>, edges |-> <<>>], num_componentes |-> 0,
        total_weight |-> 0, avg_weight |-> 0, critical_edges |-> <<>>,
        reduction_ratio |-> 0]
  ELSE LET G_weighted == PrepareGraph(weight_mode, graph)
           mst == RestoreWeights(BuildMst(G_weighted), graph)
       IN [mst |-> mst,
           num_componentes |->
             IF IsConnected(G_weighted) THEN 1
             ELSE Len(ConnectedComponents(G_weighted.nodes, EdgePairs(G_weighted), {})),
           total_weight |-> CalculateTotalWeight(mst),
           avg_weight |-> CalculateAvgWeight(mst),
           critical_edges |-> FindCriticalEdges(mst),
           reduction_ratio |-> CalculateReductionRatio(graph, mst)]

\* MSTAnalyzer.get_metrics; round(x, 4) leaves a value of two decimals as it is
MSTGetMetrics(results) ==
  [nodes |-> Len(results.mst.nodes),
   edges |-> Len(results.mst.edges),
   componentes |-> results.num_componentes,
   total_weight |-> results.total_weight,
   avg_weight |-> results.avg_weight,
   reduction_ratio |-> results.reduction_ratio,
   critical_edges_count |-> Len(results.critical_edges),
   top_critical_edges |->
     [k \in 1 .. Min2(5, Len(results.critical_edges)) |->
        [source |-> results.critical_edges[k][1],
         target |-> results.critical_edges[k][2],
         weight |-> results.critical_edges[k][3]]]]

\* ------------------------------------- WCCAnalyzer with student data, metrics
\* s[:n]
Take(s, n) == SubSeq(s, 1, Min2(n, Len(s)))

RECURSIVE InsertByCountDesc(_, _)
InsertByCountDesc(sorted, e) ==
  IF sorted = <<>> THEN <<e>>
  ELSE IF e[2] > Head(sorted)[2] THEN <<e>> \o sorted
       ELSE <<Head(sorted)>> \o InsertByCountDesc(Tail(sorted), e)

RECURSIVE SortByCountAsc(_, _)
\* SortByCountDesc without reverse=True: the smallest counts first
SortByCountAsc(items, acc) ==
  IF items = <<>> THEN [k \in DOMAIN acc |-> acc[Len(acc) + 1 - k]]
  ELSE SortByCountAsc(Tail(items), InsertByCountDesc(acc, Head(items)))

RECURSIVE SortByCountDesc(_, _)
\* sorted(items, key=lambda x: x[1], reverse=True) of (node, count) pairs: stable
SortByCountDesc(items, acc) ==
  IF items = <<>> THEN acc
  ELSE SortByCountDesc(Tail(items), InsertByCountDesc(acc, Head(items)))

\* the nodes of graph.subgraph(nodos) in iteration order: the node filter is
\* walked when it is less than half of the graph (a set of small integers is walked
\* in ascending order), the graph's nodes otherwise
SubgraphNodes(graph, nodos) ==
  IF 2 * Cardinality(nodos) < Len(graph.nodes) THEN SortedSeq(nodos)
  ELSE SelectSeq(graph.nodes, LAMBDA n : n \in nodos)

\* dict(subgrafo.out_degree()).items()
SubgraphOutDegrees(graph, nodos) ==
  LET order == SubgraphNodes(graph, nodos)
  IN [k \in DOMAIN order |->
        <<order[k], Cardinality({p \in DOMAIN graph.edges :
                                   p[1] = order[k] /\ p[2] \in nodos})>>]

\* estudiantes[estudiantes['id_estudiante'] == pid]['carrera'].iloc[0], or 'N/A'
CarreraOf(estudiantes, pid) ==
  IF \E k \in DOMAIN estudiantes : estudiantes[k].id_estudiante = pid
  THEN estudiantes[CHOOSE k \in DOMAIN estudiantes :
                     /\ estudiantes[k].id_estudiante = pid
                     /\ \A m \in DOMAIN estudiantes :
                          estudiantes[m].id_estudiante = pid => k <= m].carrera
  ELSE "N/A"

\* df_comp[column].value_counts().head(3).to_dict() for a column of at most
\* three distinct values
ValueCounts(df_comp, column) ==
  [v \in {df_comp[k][column] : k \in DOMAIN df_comp} |->
     Cardinality({k \in DOMAIN df_comp : df_comp[k][column] = v})]

\* AnalyzeComponent that lists the members of no out-degree too
AnalyzeComponentKeepZeros(nodos, estudiantes, graph) ==
  LET df_comp == SelectSeq(estudiantes, LAMBDA r : r.id_estudiante \in nodos)
      super_spreaders == Take(SortByCountDesc(SubgraphOutDegrees(graph, nodos), <<>>), 3)
  IN [tamano |-> Cardinality(nodos),
      carreras |-> ValueCounts(df_comp, "carrera"),
      anios |-> ValueCounts(df_comp, "anio_ingreso"),
      miembros |-> SortedSeq(nodos),
      super_spreaders |->
        [k \in DOMAIN super_spreaders |->
           [id |-> super_spreaders[k][1], contagios |-> super_spreaders[k][2],
            carrera |-> CarreraOf(estudiantes, super_spreaders[k][1])]]]

\* WCCAnalyzer._analyze_component (miembros in ascending order of id)
AnalyzeComponent(nodos, estudiantes, graph) ==
  LET df_comp == SelectSeq(estudiantes, LAMBDA r : r.id_estudiante \in nodos)
      super_spreaders == Take(SortByCountDesc(SubgraphOutDegrees(graph, nodos), <<>>), 3)
      listed == SelectSeq(super_spreaders, LAMBDA e : e[2] > 0)
  IN [tamano |-> Cardinality(nodos),
      carreras |-> ValueCounts(df_comp, "carrera"),
      anios |-> ValueCounts(df_comp, "anio_ingreso"),
      miembros |-> SortedSeq(nodos),
      super_spreaders |->
        [k \in DOMAIN listed |->
           [id |-> listed[k][1], contagios |-> listed[k][2],
            carrera |-> CarreraOf(estudiantes, listed[k][1])]]]

\* WCCAnalyzer.analyze(graph, estudiantes) with student data
WCCAnalyzeWithEstudiantes(graph, estudiantes) ==
  IF Len(graph.nodes) = 0 THEN WCCAnalyze(graph)
  ELSE LET results == WCCAnalyze(graph)
       IN [num_componentes |-> results.num_componentes,
           tamanos |-> results.tamanos,
           componente_gigante |-> results.componente_gigante,
           componentes |-> results.componentes,
           analisis_componentes |->
             [k \in DOMAIN results.componentes |->
                AnalyzeComponent(results.componentes[k], estudiantes, graph)]]

\* WCCAnalyzer.get_metrics
WCCGetMetrics(results) ==
  LET metrics == [num_componentes |-> results.num_componentes,
                  componente_gigante_size |-> results.componente_gigante,
                  top_3_sizes |-> Take(results.tamanos, 3),
                  fragmentacion_index |-> CalculateFragmentation(results)]
  IN IF "analisis_componentes" \in DOMAIN results /\ results.analisis_componentes # <<>>
     THEN LET first == Take(results.analisis_componentes, 3)
              top_spreaders == Concat([k \in DOMAIN first |->
                                         Take(first[k].super_spreaders, 2)])
          IN [super_spreaders |-> Take(top_spreaders, 5)] @@ metrics
     ELSE metrics

\* ------------------------------------------------------- CentralityAnalyzer
\* dict(graph.out_degree()).items()
OutDegrees(graph) ==
  [k \in DOMAIN graph.nodes |-> <<graph.nodes[k], OutDegree(graph, graph.nodes[k])>>]

\* CentralityAnalyze that sorts the out-degrees without reverse=True
CentralityAnalyzeAscending(graph) ==
  IF Cardinality(DOMAIN graph.edges) = 0 THEN [top_spreaders |-> <<>>, max_spread |-> 0]
  ELSE LET top_spreaders == Take(SortByCountAsc(OutDegrees(graph), <<>>), 10)
       IN [top_spreaders |-> top_spreaders,
           max_spread |-> IF top_spreaders # <<>> THEN top_spreaders[1][2] ELSE 0]

\* CentralityAnalyzer.analyze
CentralityAnalyze(graph) ==
  IF Cardinality(DOMAIN graph.edges) = 0 THEN [top_spreaders |-> <<>>, max_spread |-> 0]
  ELSE LET top_spreaders == Take(SortByCountDesc(OutDegrees(graph), <<>>), 10)
       IN [top_spreaders |-> top_spreaders,
           max_spread |-> IF top_spreaders # <<>> THEN top_spreaders[1][2] ELSE 0]

\* CentralityAnalyzer.get_metrics
CentralityGetMetrics(results) ==
  [max_spread |-> results.max_spread,
   top_5_spreaders |->
     [k \in 1 .. Min2(5, Len(results.top_spreaders)) |->
        [node_id |-> results.top_spreaders[k][1],
         contagios |-> results.top_spreaders[k][2]]]]

\* ------------------------------------------------------ analysis coordinators
\* AnalysisCoordinator.run_all_analyses
RunAllAnalyses(arbol_nx, estudiantes) ==
  [wcc |-> WCCAnalyzeWithEstudiantes(arbol_nx, estudiantes),
   centrality |-> CentralityAnalyze(arbol_nx)]

\* AnalysisCoordinator.get_all_metrics
GetAllMetrics(results) ==
  [wcc |-> WCCGetMetrics(results.wcc),
   centrality |-> CentralityGetMetrics(results.centrality)]

\* DailyGraphAnalysisCoordinator(weight_mode).run_all_analyses
DailyRunAllAnalyses(weight_mode, daily_graph) == [mst |-> MSTAnalyze(weight_mode, daily_graph)]

\* DailyGraphAnalysisCoordinator.get_all_metrics
DailyGetAllMetrics(results) == [mst |-> MSTGetMetrics(results.mst)]

\* ==================================================================== state
VARIABLES
  \* a simulation run (start_simulation)
  df,               \* the unified attendance table: day index -> rows of that day
  beta,             \* request.beta
  pacientes_cero,   \* the patients zero drawn for the run
  network_cache,    \* the NetworkCacheManager
  global_states,    \* student id -> 0 (susceptible) / 1 (infected)
  propagation_tree, \* the run's VectorizedPropagationTree
  infected_by_day,  \* the trajectory entries appended so far
  dia,              \* position of the loop over dias_semana
  dia_numero,
  tick,             \* the locals of the last simulated day
  wcc_results,      \* the WCC results stored when the run ends
  pc,
  simulations,      \* the number of runs stored in _simulations
  \* one network construction
  network_input,
  network,
  \* one MST analysis
  mst_graph,
  mst_mode,
  mst_results,
  \* one WCC analysis
  wcc_graph,
  wcc_out,
  \* a NetworkCacheManager and its callers
  cache_manager,    \* the NetworkCacheManager
  cache_call,       \* the last call made on it, with its arguments and result
  cache_log,        \* the calls made since the last clear_cache
  \* a VectorizedSIRSimulator and its callers
  sir_simulator,    \* the VectorizedSIRSimulator
  sim_network,      \* the day network whose matrix may be bound to it
  sim_call,         \* the last call made on it, with its arguments and result
  \* one use of the ContactGraphBuilder
  builder_rows,     \* the rows of the day
  builder_out,      \* the last method called and what it returned
  \* one use of the analysis coordinators
  analysis_input,   \* the graphs and the student table handed to them
  all_results,      \* what run_all_analyses returned, per coordinator
  all_metrics,      \* what get_all_metrics returned, per coordinator
  \* one use of a VectorizedPropagationTree
  tree_network,     \* the day network whose matrix and idx_to_node are passed
  recorded_tree,    \* the VectorizedPropagationTree
  tree_call         \* the last call made on it, with its arguments

runVars == <<df, beta, pacientes_cero, network_cache, global_states, propagation_tree,
             infected_by_day, dia, dia_numero, tick, wcc_results, pc, simulations>>
netVars == <<network_input, network>>
mstVars == <<mst_graph, mst_mode, mst_results>>
wccVars == <<wcc_graph, wcc_out>>
cacheVars == <<cache_manager, cache_call, cache_log>>
simVars == <<sir_simulator, sim_network, sim_call>>
builderVars == <<builder_rows, builder_out>>
analysisVars == <<analysis_input, all_results, all_metrics>>
treeVars == <<tree_network, recorded_tree, tree_call>>
vars == <<runVars, netVars, mstVars, wccVars, cacheVars, simVars, builderVars, analysisVars,
          treeVars>>

\* ------------------------------------------------------------- input domains
\* SimulationConfig.dias_semana
DiasSemana == <<"Lunes", "Martes", "Miercoles", "Jueves", "Viernes">>

Students == 1 .. RunStudents

\* one attendance row of the unified table
Row(persona, seccion, fila, columna, duracion) ==
  [persona_id |-> persona, seccion_id |-> seccion, fila_asiento |-> fila,
   columna_asiento |-> columna, duracion_horas |-> duracion]

\* the days a run may meet
DayRowsChoices ==
  { <<>>,                                                  \* no class that day
    << Row(1, 1, 0, 0, Scale) >>,                          \* a single attendee
    << Row(1, 1, 0, 0, Scale), Row(2, 1, 0, 1, Scale),     \* triangle seating
       Row(3, 1, 1, 1, Scale) >>,
    << Row(2, 1, 0, 0, 2 * Scale), Row(3, 1, 0, 1, 2 * Scale),  \* two sessions: 2-3, 3-4
       Row(3, 2, 0, 0, Scale), Row(4, 2, 1, 1, Scale) >>,
    << Row(4, 1, 1, 1, Scale), Row(1, 1, 0, 0, Scale),     \* hub 4, leaves 1, 2, 3
       Row(2, 1, 0, 2, Scale), Row(3, 1, 2, 0, Scale) >>,
    << Row(1, 1, 0, 0, Scale), Row(1, 1, 0, 1, Scale),     \* student 1 in two rows
       Row(2, 1, 1, 1, Scale) >>,
    << Row(1, 1, 0, 0, 0), Row(2, 1, 0, 1, 0),             \* a session of duration 0
       Row(2, 2, 0, 0, Scale), Row(3, 2, 0, 1, Scale) >> }

\* request.beta
Betas == {0, Scale \div 2}

\* values of np.random.rand, in [0, 1)
RandomDraws == {0, Scale - 1}

\* ------------------------------------------------------------------- the run
NoTick == [dia_nombre |-> "", before |-> {}, infectados_globales |-> <<>>,
           patient_zero_indices |-> <<>>, sim_before |-> NewSimulator(0, 0),
           sim_after |-> NewSimulator(0, 0), num_nuevos |-> 0, new_indices |-> <<>>,
           network |-> NewSparseContactNetwork, records_before |-> 0]

NoWcc == [num_componentes |-> -1, tamanos |-> <<>>, componente_gigante |-> 0,
          componentes |-> <<>>]

\* InfectadosGlobales without the test s == 1: every key of the dictionary
InfectadosGlobalesEveryone(states) == SortedSeq(DOMAIN states)

\* [sid for sid, s in global_states.items() if s == 1]
InfectadosGlobales(states) ==
  SortedSeq({sid \in DOMAIN states : states[sid] = 1})

\* UpdateGlobalStates that rebuilds the dictionary from the day's new infections
UpdateGlobalStatesFromDay(states, new_ids) ==
  [sid \in (DOMAIN states) \cup Range(new_ids) |->
     IF sid \in Range(new_ids) THEN 1 ELSE 0]

\* UpdateGlobalStates that forgets the day's new infections
UpdateGlobalStatesForgetNew(states, new_ids) ==
  [sid \in (DOMAIN states) \cup Range(new_ids) |->
     IF sid \in DOMAIN states THEN states[sid] ELSE 0]

\* for nid in new_ids: global_states[nid] = 1
UpdateGlobalStates(states, new_ids) ==
  [sid \in (DOMAIN states) \cup Range(new_ids) |->
     IF sid \in Range(new_ids) THEN 1 ELSE states[sid]]

RunIdle ==
  /\ df = <<>> /\ beta = 0 /\ pacientes_cero = {}
  /\ network_cache = NewNetworkCacheManager
  /\ global_states = <<>> /\ propagation_tree = NewPropagationTree
  /\ infected_by_day = <<>> /\ dia = 0 /\ dia_numero = 0 /\ tick = NoTick
  /\ wcc_results = NoWcc /\ pc = "idle" /\ simulations = 0

NetIdle == network_input = [kind |-> "none", rows |-> <<>>, edges |-> <<>>]
           /\ network = NewSparseContactNetwork

NoMstResults == [mst |-> [nodes |-> <<>>, edges |-> <<>>], num_componentes |-> -1,
                 total_weight |-> 0, avg_weight |-> 0, critical_edges |-> <<>>,
                 reduction_ratio |-> 0]

MstIdle == mst_graph = [nodes |-> <<>>, edges |-> <<>>] /\ mst_mode = "none"
           /\ mst_results = NoMstResults

WccIdle == wcc_graph = [nodes |-> <<>>, edges |-> <<>>] /\ wcc_out = NoWcc

\* no call made on the cache manager yet
NoCacheCall == [op |-> "none", dia_nombre |-> "", df_dia |-> <<>>,
                before |-> NewNetworkCacheManager, network |-> NewSparseContactNetwork,
                builder_calls |-> 0]

NoCacheLog == [calls |-> 0, labels |-> {}, stored |-> <<>>, builds |-> <<>>, ops |-> 0,
               clears |-> 0]

CacheIdle == cache_manager = NewNetworkCacheManager /\ cache_call = NoCacheCall
             /\ cache_log = NoCacheLog

\* no call made on the simulator yet
NoSimCall == [op |-> "none", before |-> NewSimulator(0, 0), indices |-> <<>>,
              num |-> 0, new_indices |-> <<>>]

SimIdle == sir_simulator = NewSimulator(0, 0) /\ sim_network = NewSparseContactNetwork
           /\ sim_call = NoSimCall

\* no method of the builder called yet
NoBuilderOut == [done |-> {}, df_clase |-> <<>>, class_edges |-> <<>>,
                 class_graph |-> [nodes |-> <<>>, edges |-> <<>>],
                 graph |-> [nodes |-> <<>>, edges |-> <<>>],
                 network |-> NewSparseContactNetwork]

BuilderIdle == builder_rows = <<>> /\ builder_out = NoBuilderOut

\* nothing handed to the analysis coordinators yet
NoAnalysisInput == [arbol_nx |-> [nodes |-> <<>>, edges |-> <<>>], estudiantes |-> <<>>,
                    G_dia |-> [nodes |-> <<>>, edges |-> <<>>], weight_mode |-> "none"]

NoAnalysisOutput == [propagation |-> <<>>, daily |-> <<>>]

AnalysisIdle == analysis_input = NoAnalysisInput /\ all_results = NoAnalysisOutput
                /\ all_metrics = NoAnalysisOutput

\* the variables of the other specifications stay at rest
\* no call made on the propagation tree yet
NoTreeCall == [op |-> "none", before |-> NewPropagationTree, sources |-> <<>>,
               targets |-> <<>>, day_name |-> ""]

TreeIdle == tree_network = NewSparseContactNetwork /\ recorded_tree = NewPropagationTree
            /\ tree_call = NoTreeCall

OthersIdle == CacheIdle /\ SimIdle /\ BuilderIdle

\* start_simulation up to the loop over the days
Init ==
  /\ df \in [1 .. NumDays -> DayRowsChoices]
  /\ beta \in Betas
  /\ pacientes_cero \in {S \in SUBSET Students :
                           Cardinality(S) >= 1 /\ Cardinality(S) <= MaxPacientesCero}
  /\ network_cache = NewNetworkCacheManager
  /\ global_states = [sid \in Students |-> IF sid \in pacientes_cero THEN 1 ELSE 0]
  /\ propagation_tree = NewPropagationTree
  /\ infected_by_day = <<>>
  /\ dia = 1
  /\ dia_numero = 0
  /\ tick = NoTick
  /\ wcc_results = NoWcc
  /\ pc = "days"
  /\ simulations = 0
  /\ NetIdle /\ MstIdle /\ WccIdle /\ OthersIdle /\ AnalysisIdle /\ TreeIdle

\* a day without rows: continue
DaySkipNoRows ==
  /\ pc = "days" /\ dia <= NumDays
  /\ Len(df[dia]) = 0
  /\ dia' = dia + 1
  /\ UNCHANGED <<df, beta, pacientes_cero, network_cache, global_states,
                 propagation_tree, infected_by_day, dia_numero, tick, wcc_results, pc,
                 simulations>>
  /\ UNCHANGED <<treeVars, analysisVars, netVars, mstVars, wccVars, cacheVars, simVars, builderVars>>

\* a day whose network has no node: continue (the network stays cached)
DaySkipEmptyNetwork ==
  /\ pc = "days" /\ dia <= NumDays
  /\ Len(df[dia]) # 0
  /\ LET got == GetOrBuild(network_cache, DiasSemana[dia], df[dia])
     IN /\ GetNodeCount(got.network) = 0
        /\ network_cache' = got.manager
  /\ dia' = dia + 1
  /\ UNCHANGED <<df, beta, pacientes_cero, global_states,
                 propagation_tree, infected_by_day, dia_numero, tick, wcc_results, pc,
                 simulations>>
  /\ UNCHANGED <<treeVars, analysisVars, netVars, mstVars, wccVars, cacheVars, simVars, builderVars>>

\* one simulated day: network, simulator, seeding, tick, global update, recording,
\* trajectory entry
DaySimulate ==
  /\ pc = "days" /\ dia <= NumDays
  /\ Len(df[dia]) # 0
  /\ \E got \in {GetOrBuild(network_cache, DiasSemana[dia], df[dia])} :
       /\ GetNodeCount(got.network) # 0
       /\ \E simulator \in
               {InitializeInfections(
                  SetContactMatrix(NewSimulator(beta, GetNodeCount(got.network)),
                                   got.network.matrix),
                  MapIdsToIndices(got.network, InfectadosGlobales(global_states)))} :
            \E random_buffer \in [0 .. GetNodeCount(got.network) - 1 -> RandomDraws] :
              \E ticked \in {SimulateTick(simulator, random_buffer)} :
                LET dia_nombre == DiasSemana[dia]
                    sparse_network == got.network
                    new_ids == MapIndicesToIds(sparse_network, ticked.new_indices)
                    states == IF ticked.num > 0
                              THEN UpdateGlobalStates(global_states, new_ids)
                              ELSE global_states
                    tree == IF ticked.num > 0
                            THEN RecordTransmissions(propagation_tree,
                                   GetInfectedIndices(ticked.sim), ticked.new_indices,
                                   sparse_network.matrix, dia_nombre,
                                   sparse_network.idx_to_node)
                            ELSE propagation_tree
                IN /\ network_cache' = SharedMatrix(got.manager, dia_nombre,
                                                   ticked.sim.contact_matrix)
                   /\ global_states' = states
                   /\ propagation_tree' = tree
                   /\ infected_by_day' = Append(infected_by_day,
                        [dia |-> dia_nombre, dia_numero |-> dia_numero,
                         nuevos_infectados |-> ticked.num,
                         total_infectados |->
                           Cardinality({sid \in DOMAIN states : states[sid] = 1}),
                         infectados_ids |-> InfectadosGlobales(states)])
                   /\ tick' = [dia_nombre |-> dia_nombre,
                               before |-> Range(InfectadosGlobales(global_states)),
                               infectados_globales |-> InfectadosGlobales(global_states),
                               patient_zero_indices |->
                                 MapIdsToIndices(sparse_network,
                                                 InfectadosGlobales(global_states)),
                               sim_before |-> simulator, sim_after |-> ticked.sim,
                               num_nuevos |-> ticked.num,
                               new_indices |-> ticked.new_indices,
                               network |-> sparse_network,
                               records_before |-> GetTransmissionCount(propagation_tree)]
  /\ dia' = dia + 1
  /\ dia_numero' = dia_numero + 1
  /\ UNCHANGED <<df, beta, pacientes_cero, wcc_results, pc, simulations>>
  /\ UNCHANGED <<treeVars, analysisVars, netVars, mstVars, wccVars, cacheVars, simVars, builderVars>>

\* after the last day: to_networkx, the WCC analysis, the results stored in
\* _simulations under a new id
FinishRun ==
  /\ pc = "days" /\ dia > NumDays
  /\ wcc_results' = WCCAnalyze(ToNetworkx(propagation_tree))
  /\ pc' = "done"
  /\ simulations' = simulations + 1
  /\ UNCHANGED <<df, beta, pacientes_cero, network_cache, global_states,
                 propagation_tree, infected_by_day, dia, dia_numero, tick>>
  /\ UNCHANGED <<treeVars, analysisVars, netVars, mstVars, wccVars, cacheVars, simVars, builderVars>>

Next == DaySkipNoRows \/ DaySkipEmptyNetwork \/ DaySimulate \/ FinishRun

Spec == Init /\ [][Next]_vars

\* ------------------------------------- several runs on the module-level cache
\* the days met by the runs that share a cache: no class, a single attendee,
\* three students seated in a triangle
RunsDayChoices ==
  { <<>>,
    << Row(1, 1, 0, 0, Scale) >>,
    << Row(1, 1, 0, 0, Scale), Row(2, 1, 0, 1, Scale), Row(3, 1, 1, 1, Scale) >> }

\* the patients zero drawn by the requests: a student seated in every class, and
\* one seated in the triangle only
RunsPatients == {1, 2}

\* what a request to start_simulation draws and loads: the tables are read
\* again by loader.load_all() on every request, one patient zero is drawn
RunsRequest(table, patient) ==
  /\ df' = table
  /\ beta' = Scale \div 2
  /\ pacientes_cero' = {patient}
  /\ global_states' = [sid \in Students |-> IF sid = patient THEN 1 ELSE 0]
  /\ propagation_tree' = NewPropagationTree
  /\ infected_by_day' = <<>>
  /\ dia' = 1
  /\ dia_numero' = 0

\* the first request: get_dependencies creates the NetworkCacheManager
RunsInit ==
  /\ df \in [1 .. NumDays -> RunsDayChoices]
  /\ beta = Scale \div 2
  /\ \E patient \in RunsPatients :
       /\ pacientes_cero = {patient}
       /\ global_states = [sid \in Students |-> IF sid = patient THEN 1 ELSE 0]
  /\ network_cache = NewNetworkCacheManager
  /\ propagation_tree = NewPropagationTree
  /\ infected_by_day = <<>>
  /\ dia = 1
  /\ dia_numero = 0
  /\ tick = NoTick
  /\ wcc_results = NoWcc
  /\ pc = "days"
  /\ simulations = 0
  /\ NetIdle /\ MstIdle /\ WccIdle /\ OthersIdle /\ AnalysisIdle /\ TreeIdle

\* a later request: get_dependencies returns the same _network_cache
StartNextRun ==
  /\ pc = "done"
  /\ simulations < MaxRuns
  /\ \E table \in [1 .. NumDays -> RunsDayChoices] : \E patient \in RunsPatients :
       RunsRequest(table, patient)
  /\ pc' = "days"
  /\ UNCHANGED <<network_cache, tick, wcc_results, simulations>>
  /\ UNCHANGED <<treeVars, analysisVars, netVars, mstVars, wccVars, cacheVars, simVars, builderVars>>

RunsNext == Next \/ StartNextRun

SpecRuns == RunsInit /\ [][RunsNext]_vars

\* ------------------------------------------------- one network construction
NetStudentIds == 1 .. NetStudents

\* seats of a class room: adjacent in a row, adjacent diagonally, two apart
NetSeats == {<<0, 0>>, <<0, 1>>, <<1, 2>>}

\* duracion_horas of the two class sessions: 1 hour, and 2 hours (above the cap)
SeccionDuracion(seccion) == seccion * Scale

NetRows(ids, s) == {Row(p, s, seat[1], seat[2], SeccionDuracion(s)) :
                      p \in ids, seat \in NetSeats}

EdgeWeights == {Scale \div 2, Scale}

NetEdges(ids) == ids \X ids \X EdgeWeights

\* the inputs: a day table of at most MaxRows rows in two class sessions, or an
\* edge list of at most MaxEdges edges.  groupby('seccion_id') orders the
\* sessions and keeps the row order inside each, so the rows are taken session
\* by session
NetInit ==
  /\ \/ \E k1 \in 0 .. MaxRows : \E k2 \in 0 .. MaxRows - k1 :
          \E r1 \in [1 .. k1 -> NetRows(NetStudentIds, 1)] :
            \E r2 \in [1 .. k2 -> NetRows(NetStudentIds, 2)] :
              network_input = [kind |-> "rows", rows |-> r1 \o r2, edges |-> <<>>]
     \/ \E k \in 0 .. MaxEdges : \E e \in [1 .. k -> NetEdges(NetStudentIds)] :
          network_input = [kind |-> "edges", rows |-> <<>>, edges |-> e]
  /\ network = NewSparseContactNetwork
  /\ RunIdle /\ MstIdle /\ WccIdle /\ OthersIdle /\ AnalysisIdle /\ TreeIdle

\* build_sparse_daily_network on the rows of a day
NetBuildDaily ==
  /\ network_input.kind = "rows"
  /\ network = NewSparseContactNetwork
  /\ \E built \in {BuildSparseDailyNetwork(network_input.rows)} : network' = built
  /\ UNCHANGED <<treeVars, analysisVars, network_input, runVars, mstVars, wccVars, cacheVars, simVars, builderVars>>

\* build_from_edges on a fresh SparseContactNetwork
NetBuildFromEdges ==
  /\ network_input.kind = "edges"
  /\ network = NewSparseContactNetwork
  /\ \E built \in {BuildFromEdges(network, network_input.edges)} : network' = built
  /\ UNCHANGED <<treeVars, analysisVars, network_input, runVars, mstVars, wccVars, cacheVars, simVars, builderVars>>

NetNext == NetBuildDaily \/ NetBuildFromEdges

SpecNet == NetInit /\ [][NetNext]_vars

\* --------------------------------- several constructions on one instance
\* the edge lists given to one instance in turn: the empty list, every single
\* edge, and the chains u - v - w of three ids in ascending order
RebuildEdgeLists ==
  {<<>>}
  \cup {<<e>> : e \in NetEdges(NetStudentIds)}
  \cup {<<<<c[1], c[2], Scale>>, <<c[2], c[3], Scale>>>> :
          c \in {t \in NetStudentIds \X NetStudentIds \X NetStudentIds :
                   t[1] < t[2] /\ t[2] < t[3]}}

\* SparseContactNetwork(): no build made yet
RebuildInit ==
  /\ network_input = [kind |-> "none", rows |-> <<>>, edges |-> <<>>]
  /\ network = NewSparseContactNetwork
  /\ RunIdle /\ MstIdle /\ WccIdle /\ OthersIdle /\ AnalysisIdle /\ TreeIdle

\* build_from_edges on the instance as the earlier builds left it
RebuildFromEdges ==
  /\ \E edges \in RebuildEdgeLists :
       /\ network_input' = [kind |-> "edges", rows |-> <<>>, edges |-> edges]
       /\ network' = BuildFromEdges(network, edges)
  /\ UNCHANGED <<treeVars, analysisVars, runVars, mstVars, wccVars, cacheVars, simVars, builderVars>>

RebuildNext == RebuildFromEdges

SpecRebuild == RebuildInit /\ [][RebuildNext]_vars

\* ---------------------------------------------------------- one MST analysis
\* the contact weights of a one-hour class: same seat, side by side
MstWeights == {ContactWeight(d2, Scale) : d2 \in 0 .. 1}

WeightModes == {"inverse", "negative", "direct"}

\* the undirected graph on the nodes 1..k whose m-th node pair ps[m] has the
\* weight w[m] (0: no edge), its edges iterated in ascending or in descending
\* pair order
MstGraphOf(k, ps, w, descending) ==
  LET present == SelectSeq([m \in DOMAIN ps |-> m], LAMBDA m : w[m] # 0)
      asc == [i \in DOMAIN present |->
                [u |-> ps[present[i]][1], v |-> ps[present[i]][2], peso |-> w[present[i]]]]
  IN [nodes |-> [x \in 1 .. k |-> x],
      edges |-> IF descending THEN [i \in DOMAIN asc |-> asc[Len(asc) + 1 - i]] ELSE asc]

MstInit ==
  /\ \E k \in 0 .. MstNodes :
       \E ps \in {UpperPairs(k)} :
         \E w \in [DOMAIN ps -> MstWeights \cup {0}] : \E d \in BOOLEAN :
           /\ d => Cardinality({m \in DOMAIN ps : w[m] # 0}) > 1
           /\ mst_graph = MstGraphOf(k, ps, w, d)
  /\ mst_mode \in WeightModes
  /\ mst_results = NoMstResults
  /\ RunIdle /\ NetIdle /\ WccIdle /\ OthersIdle /\ AnalysisIdle /\ TreeIdle

\* MSTAnalyzer(weight_mode=mst_mode).analyze(mst_graph)
MstAnalyzeGraph ==
  /\ mst_results = NoMstResults
  /\ \E results \in {MSTAnalyze(mst_mode, mst_graph)} : mst_results' = results
  /\ UNCHANGED <<treeVars, analysisVars, mst_graph, mst_mode, runVars, netVars, wccVars, cacheVars, simVars,
                 builderVars>>

MstNext == MstAnalyzeGraph

SpecMST == MstInit /\ [][MstNext]_vars

\* ---------------------------------------------------------- one WCC analysis
\* the directed graph on the nodes 1..k with the edges E
WccGraphOf(k, E) ==
  [nodes |-> [x \in 1 .. k |-> x],
   edges |-> [p \in E |-> [peso |-> Scale, dia |-> "Lunes"]]]

WccInit ==
  /\ \E k \in 0 .. WccNodes : \E E \in SUBSET ((1 .. k) \X (1 .. k)) :
       wcc_graph = WccGraphOf(k, E)
  /\ wcc_out = NoWcc
  /\ RunIdle /\ NetIdle /\ MstIdle /\ OthersIdle /\ AnalysisIdle /\ TreeIdle

\* WCCAnalyzer().analyze(wcc_graph)
WccAnalyzeGraph ==
  /\ wcc_out = NoWcc
  /\ \E results \in {WCCAnalyze(wcc_graph)} : wcc_out' = results
  /\ UNCHANGED <<treeVars, analysisVars, wcc_graph, runVars, netVars, mstVars, cacheVars, simVars, builderVars>>

WccNext == WccAnalyzeGraph

SpecWCC == WccInit /\ [][WccNext]_vars

\* ------------------------------------------- a cache manager and its callers
\* the day labels the callers use
CacheLabels == {DiasSemana[k] : k \in 1 .. NumDays}

\* the day rows the callers pass: no class, two neighbours, triangle seating
CacheRowsChoices ==
  { <<>>,
    << Row(1, 1, 0, 0, Scale), Row(2, 1, 0, 1, Scale) >>,
    << Row(1, 1, 0, 0, Scale), Row(2, 1, 0, 1, Scale), Row(3, 1, 1, 1, Scale) >> }

CacheInit ==
  /\ cache_manager = NewNetworkCacheManager
  /\ cache_call = NoCacheCall
  /\ cache_log = NoCacheLog
  /\ RunIdle /\ NetIdle /\ MstIdle /\ WccIdle /\ SimIdle /\ BuilderIdle /\ AnalysisIdle /\ TreeIdle

\* network_cache.get_or_build(dia_nombre, df_dia)
CacheGetOrBuild ==
  /\ cache_log.ops < MaxCacheCalls
  /\ \E dia_nombre \in CacheLabels : \E df_dia \in CacheRowsChoices :
       \E got \in {GetOrBuild(cache_manager, dia_nombre, df_dia)} :
         /\ cache_manager' = got.manager
         /\ cache_call' = [op |-> "get_or_build", dia_nombre |-> dia_nombre,
                           df_dia |-> df_dia, before |-> cache_manager,
                           network |-> got.network,
                           builder_calls |-> got.builder_calls]
         /\ cache_log' = [calls |-> cache_log.calls + 1,
                          labels |-> cache_log.labels \cup {dia_nombre},
                          stored |-> IF dia_nombre \in DOMAIN cache_log.stored
                                     THEN cache_log.stored
                                     ELSE [d \in (DOMAIN cache_log.stored) \cup {dia_nombre} |->
                                             IF d = dia_nombre THEN got.network
                                             ELSE cache_log.stored[d]],
                          builds |-> [d \in (DOMAIN cache_log.builds) \cup {dia_nombre} |->
                                        (IF d \in DOMAIN cache_log.builds
                                         THEN cache_log.builds[d] ELSE 0)
                                        + (IF d = dia_nombre THEN got.builder_calls ELSE 0)],
                          ops |-> cache_log.ops + 1,
                          clears |-> cache_log.clears]
  /\ UNCHANGED <<treeVars, analysisVars, runVars, netVars, mstVars, wccVars, simVars, builderVars>>

\* network_cache.clear_cache()
CacheClear ==
  /\ cache_log.ops < MaxCacheCalls
  /\ cache_manager' = ClearCache(cache_manager)
  /\ cache_call' = [op |-> "clear_cache", dia_nombre |-> "", df_dia |-> <<>>,
                    before |-> cache_manager, network |-> NewSparseContactNetwork,
                    builder_calls |-> 0]
  /\ cache_log' = [calls |-> 0, labels |-> {}, stored |-> <<>>, builds |-> <<>>,
                   ops |-> cache_log.ops + 1, clears |-> cache_log.clears + 1]
  /\ UNCHANGED <<treeVars, analysisVars, runVars, netVars, mstVars, wccVars, simVars, builderVars>>

CacheNext == CacheGetOrBuild \/ CacheClear

SpecCache == CacheInit /\ [][CacheNext]_vars

\* ------------------------------------------------ a simulator and its callers
\* the day network of the simulator: the students 1 .. SimNodes, every pair of
\* them without contact (0) or in contact with a weight of one half
SimNetworkOf(ps, w) ==
  BuildFromEdges(NewSparseContactNetwork,
                 [k \in DOMAIN SelectSeq(ps, LAMBDA p : w[p] # 0) |->
                    <<SelectSeq(ps, LAMBDA p : w[p] # 0)[k][1],
                      SelectSeq(ps, LAMBDA p : w[p] # 0)[k][2],
                      w[SelectSeq(ps, LAMBDA p : w[p] # 0)[k]]>>])

SimInit ==
  /\ \E ps \in {UpperPairs(SimNodes)} :
       \E w \in [Range(ps) -> {0, Scale \div 2}] :
         sim_network = SimNetworkOf(ps, w)
  /\ \E b \in Betas : sir_simulator = NewSimulator(b, GetNodeCount(sim_network))
  /\ sim_call = NoSimCall
  /\ RunIdle /\ NetIdle /\ MstIdle /\ WccIdle /\ CacheIdle /\ BuilderIdle /\ AnalysisIdle /\ TreeIdle

\* simulator.set_contact_matrix(sparse_network.get_matrix())
SimSetContactMatrix ==
  /\ sir_simulator' = SetContactMatrix(sir_simulator, sim_network.matrix)
  /\ sim_call' = [op |-> "set_contact_matrix", before |-> sir_simulator,
                  indices |-> <<>>, num |-> 0, new_indices |-> <<>>]
  /\ UNCHANGED <<treeVars, analysisVars, sim_network, runVars, netVars, mstVars, wccVars, cacheVars, builderVars>>

\* simulator.initialize_infections(patient_zero_indices)
SimInitializeInfections ==
  /\ \E S \in SUBSET (0 .. sir_simulator.num_nodes - 1) :
       \E after \in {InitializeInfections(sir_simulator, SortedSeq(S))} :
         /\ sir_simulator' = after
         /\ sim_call' = [op |-> "initialize_infections", before |-> sir_simulator,
                         indices |-> SortedSeq(S), num |-> 0, new_indices |-> <<>>]
  /\ UNCHANGED <<treeVars, analysisVars, sim_network, runVars, netVars, mstVars, wccVars, cacheVars, builderVars>>

\* simulator.simulate_tick()
SimSimulateTick ==
  /\ \E random_buffer \in [0 .. sir_simulator.num_nodes - 1 -> RandomDraws] :
       \E ticked \in {SimulateTick(sir_simulator, random_buffer)} :
         /\ sir_simulator' = ticked.sim
         /\ sim_call' = [op |-> "simulate_tick", before |-> sir_simulator,
                         indices |-> <<>>, num |-> ticked.num,
                         new_indices |-> ticked.new_indices]
  /\ UNCHANGED <<treeVars, analysisVars, sim_network, runVars, netVars, mstVars, wccVars, cacheVars, builderVars>>

SimNext == SimSetContactMatrix \/ SimInitializeInfections \/ SimSimulateTick

SpecSim == SimInit /\ [][SimNext]_vars

\* --------------------------------------------------- a builder and its callers
BuilderStudentIds == 1 .. BuilderStudents

\* a student without a row in a class session
Absent == <<-1, -1>>

\* duracion_horas of the class sessions 1 and 2, as _calcular_duracion returns
\* them: under and above the cap, and a class whose horario_fin is before or
\* at its horario_inicio
BuilderDurations == { <<Scale, 2 * Scale>>, <<-Scale, -2 * Scale>>, <<0, Scale>> }

\* the rows of class session seccion: student p sits at seat[p] unless Absent;
\* the rows are in ascending or in descending student id
ClassRows(seccion, seat, duracion, descending) ==
  LET present == SelectSeq([p \in BuilderStudentIds |-> p], LAMBDA p : seat[p] # Absent)
      ordered == IF descending
                 THEN [k \in DOMAIN present |-> present[Len(present) + 1 - k]]
                 ELSE present
  IN [k \in DOMAIN ordered |->
        Row(ordered[k], seccion, seat[ordered[k]][1], seat[ordered[k]][2], duracion)]

\* the inputs: the rows of a day with two class sessions, no student twice in a
\* session
BuilderInit ==
  /\ \E seat1 \in [BuilderStudentIds -> NetSeats \cup {Absent}] :
       \E seat2 \in [BuilderStudentIds -> NetSeats \cup {Absent}] :
         \E descending \in BOOLEAN : \E d \in BuilderDurations :
           builder_rows = ClassRows(1, seat1, d[1], FALSE)
                            \o ClassRows(2, seat2, d[2], descending)
  /\ builder_out = NoBuilderOut
  /\ RunIdle /\ NetIdle /\ MstIdle /\ WccIdle /\ CacheIdle /\ SimIdle /\ AnalysisIdle /\ TreeIdle

\* build_class_graph(df_clase) on the rows of one class session, or on no rows
BuilderBuildClassGraph ==
  /\ \E df_clase \in Range(GroupBySeccion(builder_rows)) \cup {<<>>} :
       \E class_edges \in {CalculateEdgesVectorized(df_clase,
                               IF Len(df_clase) > 0 THEN df_clase[1].duracion_horas
                               ELSE 2 * Scale)} :
         \E G \in {BuildClassGraph(df_clase)} :
           builder_out' = [builder_out EXCEPT
                             !.done = @ \cup {"build_class_graph"},
                             !.df_clase = df_clase,
                             !.class_edges = class_edges,
                             !.class_graph = G]
  /\ UNCHANGED <<treeVars, analysisVars, builder_rows, runVars, netVars, mstVars, wccVars, cacheVars, simVars>>

\* build_daily_graph(df_dia)
BuilderBuildDailyGraph ==
  /\ "build_daily_graph" \notin builder_out.done
  /\ \E G_dia \in {BuildDailyGraph(builder_rows)} :
       builder_out' = [builder_out EXCEPT
                         !.done = @ \cup {"build_daily_graph"}, !.graph = G_dia]
  /\ UNCHANGED <<treeVars, analysisVars, builder_rows, runVars, netVars, mstVars, wccVars, cacheVars, simVars>>

\* build_sparse_daily_network(df_dia)
BuilderBuildSparseDailyNetwork ==
  /\ "build_sparse_daily_network" \notin builder_out.done
  /\ \E built \in {BuildSparseDailyNetwork(builder_rows)} :
       builder_out' = [builder_out EXCEPT
                         !.done = @ \cup {"build_sparse_daily_network"},
                         !.network = built]
  /\ UNCHANGED <<treeVars, analysisVars, builder_rows, runVars, netVars, mstVars, wccVars, cacheVars, simVars>>

BuilderNext ==
  BuilderBuildClassGraph \/ BuilderBuildDailyGraph \/ BuilderBuildSparseDailyNetwork

SpecBuilder == BuilderInit /\ [][BuilderNext]_vars

\* ------------------------------------------ one use of the analysis coordinators
\* the students table: every id up to RankingNodes but 2, two careers, three years
AnalysisEstudiantes ==
  LET ids == SortedSeq((1 .. RankingNodes) \ {2})
  IN [k \in DOMAIN ids |->
        [id_estudiante |-> ids[k],
         carrera |-> IF ids[k] % 2 = 1 THEN "Sistemas" ELSE "Industrial",
         anio_ingreso |-> 2020 + (ids[k] % 3)]]

\* the propagation graph of the records parent[i] -> i (parent[i] = 0: no record
\* for i), recorded in ascending order of i
PropagationGraphOf(k, parent) ==
  LET targets == SelectSeq([i \in 1 .. k |-> i], LAMBDA i : parent[i] # 0)
  IN ToNetworkx([sources |-> [m \in DOMAIN targets |-> parent[targets[m]]],
                 targets |-> targets,
                 weights |-> [m \in DOMAIN targets |-> Scale \div 2],
                 days    |-> [m \in DOMAIN targets |-> "Lunes"]])

\* either a propagation graph (every shape of in-degree at most 1 on up to
\* AnalysisNodes students; above that, every student but the first infected by
\* student 1 or by the student before) with an empty daily graph, or a daily
\* graph of up to two students with an empty propagation graph
AnalysisInit ==
  /\ \/ \E k \in 0 .. AnalysisNodes : \E parent \in [1 .. k -> 0 .. k] :
          analysis_input = [arbol_nx |-> PropagationGraphOf(k, parent),
                            estudiantes |-> AnalysisEstudiantes,
                            G_dia |-> EmptyGraph, weight_mode |-> "inverse"]
     \/ \E k \in AnalysisNodes + 1 .. RankingNodes :
          \E by_first \in [2 .. k -> BOOLEAN] :
            analysis_input =
              [arbol_nx |-> PropagationGraphOf(k, [i \in 1 .. k |->
                              IF i = 1 THEN 0 ELSE IF by_first[i] THEN 1 ELSE i - 1]),
               estudiantes |-> AnalysisEstudiantes,
               G_dia |-> EmptyGraph, weight_mode |-> "inverse"]
     \/ \E k \in 0 .. 2 : \E ps \in {UpperPairs(k)} :
          \E w \in [DOMAIN ps -> MstWeights \cup {0}] : \E mode \in WeightModes :
            analysis_input = [arbol_nx |-> ToNetworkx(NewPropagationTree),
                              estudiantes |-> AnalysisEstudiantes,
                              G_dia |-> MstGraphOf(k, ps, w, FALSE),
                              weight_mode |-> mode]
  /\ all_results = NoAnalysisOutput
  /\ all_metrics = NoAnalysisOutput
  /\ RunIdle /\ NetIdle /\ MstIdle /\ WccIdle /\ OthersIdle /\ TreeIdle

\* AnalysisCoordinator().run_all_analyses(arbol_nx, estudiantes)
AnalysisRunAllAnalyses ==
  /\ all_results.propagation = <<>>
  /\ \E results \in {RunAllAnalyses(analysis_input.arbol_nx, analysis_input.estudiantes)} :
       all_results' = [all_results EXCEPT !.propagation = results]
  /\ UNCHANGED <<analysis_input, all_metrics, runVars, netVars, mstVars, wccVars,
                 cacheVars, simVars, builderVars, treeVars>>

\* AnalysisCoordinator.get_all_metrics(results)
AnalysisGetAllMetrics ==
  /\ all_results.propagation # <<>>
  /\ all_metrics.propagation = <<>>
  /\ \E metrics \in {GetAllMetrics(all_results.propagation)} :
       all_metrics' = [all_metrics EXCEPT !.propagation = metrics]
  /\ UNCHANGED <<analysis_input, all_results, runVars, netVars, mstVars, wccVars,
                 cacheVars, simVars, builderVars, treeVars>>

\* DailyGraphAnalysisCoordinator(weight_mode).run_all_analyses(G_dia)
AnalysisDailyRunAllAnalyses ==
  /\ all_results.daily = <<>>
  /\ \E results \in {DailyRunAllAnalyses(analysis_input.weight_mode, analysis_input.G_dia)} :
       all_results' = [all_results EXCEPT !.daily = results]
  /\ UNCHANGED <<analysis_input, all_metrics, runVars, netVars, mstVars, wccVars,
                 cacheVars, simVars, builderVars, treeVars>>

\* DailyGraphAnalysisCoordinator.get_all_metrics(results), when analyze returned
AnalysisDailyGetAllMetrics ==
  /\ all_results.daily # <<>>
  /\ all_results.daily.mst # NetworkXPointlessConcept
  /\ all_metrics.daily = <<>>
  /\ \E metrics \in {DailyGetAllMetrics(all_results.daily)} :
       all_metrics' = [all_metrics EXCEPT !.daily = metrics]
  /\ UNCHANGED <<analysis_input, all_results, runVars, netVars, mstVars, wccVars,
                 cacheVars, simVars, builderVars, treeVars>>

AnalysisNext ==
  \/ AnalysisRunAllAnalyses \/ AnalysisGetAllMetrics
  \/ AnalysisDailyRunAllAnalyses \/ AnalysisDailyGetAllMetrics

SpecAnalysis == AnalysisInit /\ [][AnalysisNext]_vars

\* ------------------------------------------- a propagation tree and its callers
\* contact weight of the students u and v: one half or one, by the parity of u + v
TreePairWeight(u, v) == (((u + v) % 2) + 1) * (Scale \div 2)

\* the day network of the tree: the students of the pairs in E, each pair in
\* contact with its TreePairWeight
TreeNetworkOf(E) ==
  LET ps == SelectSeq(UpperPairs(TreeNodes), LAMBDA p : p \in E)
  IN BuildFromEdges(NewSparseContactNetwork,
                    [k \in DOMAIN ps |-> <<ps[k][1], ps[k][2], TreePairWeight(ps[k][1], ps[k][2])>>])

\* a tree not used before, or a tree holding a record of an earlier day
TreeInit ==
  /\ \E E \in SUBSET Range(UpperPairs(TreeNodes)) : tree_network = TreeNetworkOf(E)
  /\ recorded_tree \in {NewPropagationTree,
                        [sources |-> <<1>>, targets |-> <<2>>, weights |-> <<Scale>>,
                         days |-> <<DiasSemana[1]>>]}
  /\ tree_call = NoTreeCall
  /\ RunIdle /\ NetIdle /\ MstIdle /\ WccIdle /\ OthersIdle /\ AnalysisIdle

\* propagation_tree.record_transmissions(sources, targets, matrix, dia_nombre,
\* idx_to_node): sources is an index array without repetition, targets any
\* index array of at most MaxTargets entries
TreeRecordTransmissions ==
  /\ tree_call.op = "none"
  /\ \E S \in SUBSET (0 .. GetNodeCount(tree_network) - 1) :
       \E k \in 0 .. MaxTargets :
         \E targets \in [1 .. k -> 0 .. GetNodeCount(tree_network) - 1] :
           \E after \in {RecordTransmissions(recorded_tree, SortedSeq(S), targets,
                                              tree_network.matrix, DiasSemana[2],
                                              tree_network.idx_to_node)} :
             /\ recorded_tree' = after
             /\ tree_call' = [op |-> "record_transmissions", before |-> recorded_tree,
                              sources |-> SortedSeq(S), targets |-> targets,
                              day_name |-> DiasSemana[2]]
  /\ UNCHANGED <<tree_network, runVars, netVars, mstVars, wccVars, cacheVars, simVars,
                 builderVars, analysisVars>>

TreeNext == TreeRecordTransmissions

SpecTree == TreeInit /\ [][TreeNext]_vars

\* =================================================================== claims
InfectedGlobal == {sid \in DOMAIN global_states : global_states[sid] = 1}

TrajectoryIds(k) == Range(infected_by_day[k].infectados_ids)

\* the propagation graph of the run so far
ArbolNx == ToNetworkx(propagation_tree)

\* C1: in a run, the ids infected after a simulated day include the ids infected
\* after the day before (and the patients zero), and are the ids infected in the
\* global state: no id returns to susceptible, also when it misses a day.
C1_InfectedSetGrows ==
  pc \in {"days", "done"} =>
    /\ pacientes_cero \subseteq InfectedGlobal
    /\ \A k \in 1 .. Len(infected_by_day) :
         /\ pacientes_cero \subseteq TrajectoryIds(k)
         /\ k > 1 => TrajectoryIds(k - 1) \subseteq TrajectoryIds(k)
    /\ Len(infected_by_day) > 0 => TrajectoryIds(Len(infected_by_day)) = InfectedGlobal

\* C1 witness: after two simulated days, a student infected after the first day
\* was not in the second day's network, which had new infections
C1_Witness ==
  /\ Len(infected_by_day) = 2
  /\ tick.num_nuevos > 0
  /\ \E sid \in TrajectoryIds(1) :
       sid \notin DOMAIN tick.network.node_to_idx /\ sid \in TrajectoryIds(2)

\* C2: every node of the run's propagation graph has in-degree at most 1.
C2_InDegreeAtMostOne ==
  \A n \in Range(ArbolNx.nodes) : InDegree(ArbolNx, n) <= 1

\* C2 witness: transmissions were recorded on two different days and a target
\* had two infected neighbours when it was recorded
C2_Witness ==
  /\ \E k, m \in DOMAIN propagation_tree.days :
       propagation_tree.days[k] # propagation_tree.days[m]
  /\ \E i \in Range(tick.new_indices) :
       Cardinality({j \in Range(RowIndices(tick.network.matrix, i)) :
                      tick.sim_after.states[j] = 1 /\ j # i}) >= 2

\* C3 (as claimed): the source of every transmission recorded for a tick was
\* infected before that tick.
\* Checked on the days whose network has an empty diagonal.
C3_SourcesInfectedBeforeTick ==
  (\A i \in 0 .. tick.network.num_nodes - 1 : <<i, i>> \notin DOMAIN tick.network.matrix.data) =>
    \A k \in DOMAIN propagation_tree.sources :
      k > tick.records_before => propagation_tree.sources[k] \in tick.before

\* C4: a tick infects a node only if a neighbour of positive contact weight was
\* infected before the tick, and a node of zero exposure keeps its state.
C4_NoSpontaneousInfection ==
  \A i \in 0 .. tick.sim_before.num_nodes - 1 :
    /\ (tick.sim_before.states[i] = 0 /\ tick.sim_after.states[i] = 1) =>
         \E j \in 0 .. tick.sim_before.num_nodes - 1 :
           /\ Adj(tick.network.matrix, i, j) > 0
           /\ tick.sim_before.states[j] = 1
    /\ (\A j \in 0 .. tick.sim_before.num_nodes - 1 :
          Adj(tick.network.matrix, i, j) = 0 \/ tick.sim_before.states[j] = 0) =>
         tick.sim_after.states[i] = tick.sim_before.states[i]

\* C4 witness: a tick with beta > 0 infected a node and left susceptible a node
\* that has a neighbour but no infected neighbour of positive weight
C4_Witness ==
  /\ tick.sim_before.beta > 0
  /\ tick.num_nuevos > 0
  /\ \E i \in 0 .. tick.sim_before.num_nodes - 1 :
       /\ tick.sim_after.states[i] = 0
       /\ RowIndices(tick.network.matrix, i) # <<>>
       /\ \A j \in 0 .. tick.sim_before.num_nodes - 1 :
            Adj(tick.network.matrix, i, j) = 0 \/ tick.sim_before.states[j] = 0

\* C5: with beta = 0 a tick returns (0, empty) and leaves the state vector unchanged.
C5_BetaZeroNoInfection ==
  (tick # NoTick /\ tick.sim_before.beta = 0) =>
    /\ tick.num_nuevos = 0
    /\ tick.new_indices = <<>>
    /\ tick.sim_after.states = tick.sim_before.states

\* C5 witness: a tick with beta = 0 in which a susceptible node had an infected
\* neighbour of positive weight
C5_Witness ==
  /\ tick # NoTick /\ tick.sim_before.beta = 0
  /\ \E i, j \in 0 .. tick.sim_before.num_nodes - 1 :
       /\ tick.sim_before.states[i] = 0 /\ tick.sim_before.states[j] = 1
       /\ Adj(tick.network.matrix, i, j) > 0

\* C6: the adjacency built by build_from_edges and by build_sparse_daily_network
\* is symmetric, in its values and in its stored positions.
C6_AdjacencySymmetric ==
  network.matrix # NoMatrix =>
    \A i, j \in 0 .. network.matrix.shape - 1 :
      /\ Adj(network.matrix, i, j) = Adj(network.matrix, j, i)
      /\ <<i, j>> \in DOMAIN network.matrix.data <=> <<j, i>> \in DOMAIN network.matrix.data

\* C6 witness: a matrix built from an edge list that holds a pair of distinct
\* nodes in both orientations
C6_Witness ==
  /\ network.matrix # NoMatrix
  /\ network_input.kind = "edges"
  /\ \E k, m \in DOMAIN network_input.edges :
       /\ k # m
       /\ network_input.edges[k][1] # network_input.edges[k][2]
       /\ network_input.edges[k][1] = network_input.edges[m][2]
       /\ network_input.edges[k][2] = network_input.edges[m][1]

\* C7 (as claimed): the built adjacency has a zero diagonal, for every edge list
\* and for every rows of a day.
C7_ZeroDiagonal ==
  network.matrix # NoMatrix =>
    \A i \in 0 .. network.matrix.shape - 1 :
      /\ Adj(network.matrix, i, i) = 0
      /\ <<i, i>> \notin DOMAIN network.matrix.data

\* the connected components of the graph given to MSTAnalyzer.analyze
MstInputComponents == ConnectedComponents(mst_graph.nodes, EdgePairs(mst_graph), {})

\* the edges of the result tree other than edge k, as pairs
TreePairsWithout(k) ==
  {<<mst_results.mst.edges[m].u, mst_results.mst.edges[m].v>> :
     m \in DOMAIN mst_results.mst.edges \ {k}}

\* C8: the tree returned by analyze has N - C edges (N nodes and C components of
\* the input) and no cycle.
C8_SpanningForestEdgeCount ==
  mst_results # NoMstResults =>
    /\ Len(mst_results.mst.edges) = Len(mst_graph.nodes) - Len(MstInputComponents)
    /\ \A k \in DOMAIN mst_results.mst.edges :
         /\ mst_results.mst.edges[k].u # mst_results.mst.edges[k].v
         /\ mst_results.mst.edges[k].v
              \notin Reach(TreePairsWithout(k), {mst_results.mst.edges[k].u})

\* C8 witness: the analysed graph has two components or more and a cycle
C8_Witness ==
  /\ mst_results # NoMstResults
  /\ Len(MstInputComponents) >= 2
  /\ Len(mst_graph.edges) > Len(mst_graph.nodes) - Len(MstInputComponents)

\* C9: every edge of the returned tree is an edge of the input with the input's
\* peso and no construction weight, and total_weight and critical_edges are
\* computed from the input's peso, in every weight mode.
C9_OriginalWeights ==
  mst_results # NoMstResults =>
    /\ \A k \in DOMAIN mst_results.mst.edges :
         /\ DOMAIN mst_results.mst.edges[k] = {"u", "v", "peso"}
         /\ \E m \in DOMAIN mst_graph.edges :
              /\ {mst_graph.edges[m].u, mst_graph.edges[m].v}
                   = {mst_results.mst.edges[k].u, mst_results.mst.edges[k].v}
              /\ mst_graph.edges[m].peso = mst_results.mst.edges[k].peso
    /\ mst_results.total_weight =
         SumSeq([k \in DOMAIN mst_results.mst.edges |->
                   GraphPeso(mst_graph, mst_results.mst.edges[k].u,
                             mst_results.mst.edges[k].v)])
    /\ Len(mst_results.critical_edges) = Len(mst_results.mst.edges)
    /\ \A k \in DOMAIN mst_results.critical_edges :
         /\ mst_results.critical_edges[k][3]
              = GraphPeso(mst_graph, mst_results.critical_edges[k][1],
                          mst_results.critical_edges[k][2])
         /\ \E m \in DOMAIN mst_results.mst.edges :
              {mst_results.mst.edges[m].u, mst_results.mst.edges[m].v}
                = {mst_results.critical_edges[k][1], mst_results.critical_edges[k][2]}
         /\ k > 1 => mst_results.critical_edges[k - 1][3] >= mst_results.critical_edges[k][3]

\* C9 witness: a tree of two edges or more built in mode "inverse" that has an
\* edge whose construction weight differs from its peso, and left an edge out
C9_Witness ==
  /\ mst_results # NoMstResults
  /\ mst_mode = "inverse"
  /\ Len(mst_results.mst.edges) >= 2
  /\ Len(mst_graph.edges) > Len(mst_results.mst.edges)
  /\ \E k \in DOMAIN mst_results.mst.edges :
       LET w == MstWeight(mst_mode, mst_results.mst.edges[k].peso)
       IN w.num # mst_results.mst.edges[k].peso * w.den

\* exactly one component of the analysed propagation graph spans all its nodes
OneComponentSpansAll ==
  /\ Len(wcc_out.componentes) = 1
  /\ wcc_out.componentes[1] = Range(wcc_graph.nodes)

\* C10: the fragmentation index lies in [0, 1) and, for a graph that has a node,
\* is 0 exactly when one component spans all nodes; for the graph without
\* nodes it is 0.
C10_FragmentationIndex ==
  wcc_out # NoWcc =>
    \A f \in {CalculateFragmentation(wcc_out), GetWccFragmentation(wcc_out)} :
      /\ 0 <= f /\ f < Scale
      /\ Len(wcc_graph.nodes) > 0 => (f = 0 <=> OneComponentSpansAll)
      /\ Len(wcc_graph.nodes) = 0 => f = 0

\* C10 witness: a graph of two components or more was analysed and its index is
\* above 0
C10_Witness ==
  /\ wcc_out # NoWcc
  /\ wcc_out.num_componentes >= 2
  /\ CalculateFragmentation(wcc_out) > 0
  /\ DOMAIN wcc_graph.edges # {}

\* C10 (as claimed): the fragmentation index lies in [0, 1) and is 0 exactly
\* when one component spans all nodes.
C10_FragmentationZeroIffOneComponent ==
  wcc_out # NoWcc =>
    \A f \in {CalculateFragmentation(wcc_out), GetWccFragmentation(wcc_out)} :
      /\ 0 <= f /\ f < Scale
      /\ f = 0 <=> OneComponentSpansAll

\* C11: a get_or_build call for a cached label returns the network stored by the
\* first call for that label, counts a hit and makes no call to the builder,
\* whatever rows are passed; a call for an uncached label builds the network
\* from the rows, stores it, returns it and counts a miss.
C11_CacheHitAndMiss ==
  cache_call.op = "get_or_build" =>
    IF cache_call.dia_nombre \in DOMAIN cache_call.before.cache
    THEN /\ cache_call.network = cache_call.before.cache[cache_call.dia_nombre]
         /\ cache_call.network = cache_log.stored[cache_call.dia_nombre]
         /\ cache_call.builder_calls = 0
         /\ cache_manager.cache = cache_call.before.cache
         /\ cache_manager.cache_hits = cache_call.before.cache_hits + 1
         /\ cache_manager.cache_misses = cache_call.before.cache_misses
    ELSE /\ cache_call.network = BuildSparseDailyNetwork(cache_call.df_dia)
         /\ cache_call.builder_calls = 1
         /\ DOMAIN cache_manager.cache
              = (DOMAIN cache_call.before.cache) \cup {cache_call.dia_nombre}
         /\ cache_manager.cache[cache_call.dia_nombre] = cache_call.network
         /\ \A d \in DOMAIN cache_call.before.cache :
              cache_manager.cache[d] = cache_call.before.cache[d]
         /\ cache_manager.cache_hits = cache_call.before.cache_hits
         /\ cache_manager.cache_misses = cache_call.before.cache_misses + 1

\* C11 witness: a hit whose rows would build a network of another edge count
\* than the one returned
C11_Witness ==
  /\ cache_call.op = "get_or_build"
  /\ cache_call.dia_nombre \in DOMAIN cache_call.before.cache
  /\ GetEdgeCount(BuildSparseDailyNetwork(cache_call.df_dia))
       # GetEdgeCount(cache_call.network)

C13_TickWithoutMatrix ==
  (sim_call.op = "simulate_tick" /\ sim_call.before.contact_matrix = NoMatrix) =>
    /\ sim_call.num = 0
    /\ sim_call.new_indices = <<>>
    /\ sir_simulator.states = sim_call.before.states
    /\ sir_simulator.susceptible_mask = sim_call.before.susceptible_mask
    /\ sir_simulator.contact_matrix = NoMatrix

\* C13 witness: a tick without matrix on a simulator with beta > 0 in which a
\* susceptible node is in contact, in the day network, with an infected node
C13_Witness ==
  /\ sim_call.op = "simulate_tick" /\ sim_call.before.contact_matrix = NoMatrix
  /\ sim_call.before.beta > 0
  /\ \E i, j \in 0 .. sim_call.before.num_nodes - 1 :
       /\ sim_call.before.states[i] = 0 /\ sim_call.before.states[j] = 1
       /\ Adj(sim_network.matrix, i, j) > 0

\* max(|dfila|, |dcolumna|) of the seats of two rows
Chebyshev(r1, r2) ==
  Max2(Abs(r1.fila_asiento - r2.fila_asiento), Abs(r1.columna_asiento - r2.columna_asiento))

\* the pairs of distinct rows of a class session whose seats are neighbours
NeighbourRowPairs(df_clase) ==
  {q \in (DOMAIN df_clase) \X (DOMAIN df_clase) :
     q[1] < q[2] /\ Chebyshev(df_clase[q[1]], df_clase[q[2]]) <= 1}

\* C14: the edges of a class session are, one for one, the pairs of distinct
\* rows at Chebyshev distance at most 1, each joining the students of its two
\* rows; a session of 0 or 1 rows has no edge; the class graph joins two
\* students exactly when such a pair of rows of theirs exists.
C14_ClassEdges ==
  "build_class_graph" \in builder_out.done =>
    /\ Len(builder_out.df_clase) <= 1 => builder_out.class_edges = <<>>
    /\ Len(builder_out.class_edges) = Cardinality(NeighbourRowPairs(builder_out.df_clase))
    /\ \A a, b \in BuilderStudentIds :
         /\ Cardinality({k \in DOMAIN builder_out.class_edges :
                           /\ builder_out.class_edges[k][1] = a
                           /\ builder_out.class_edges[k][2] = b})
              = Cardinality({q \in NeighbourRowPairs(builder_out.df_clase) :
                               /\ builder_out.df_clase[q[1]].persona_id = a
                               /\ builder_out.df_clase[q[2]].persona_id = b})
         /\ HasEdge(builder_out.class_graph, a, b)
              <=> \E q \in NeighbourRowPairs(builder_out.df_clase) :
                    {builder_out.df_clase[q[1]].persona_id,
                     builder_out.df_clase[q[2]].persona_id} = {a, b}

\* C14 witness: a class session of two rows on seats that touch diagonally
C14_Witness ==
  /\ "build_class_graph" \in builder_out.done
  /\ Len(builder_out.df_clase) = 2
  /\ builder_out.df_clase[1].fila_asiento # builder_out.df_clase[2].fila_asiento
  /\ builder_out.df_clase[1].columna_asiento # builder_out.df_clase[2].columna_asiento
  /\ Len(builder_out.class_edges) = 1

\* the weights of the contacts of students a and b in the class sessions of the
\* day, one sequence of weights per session
SessionWeights(a, b) ==
  LET groups == GroupBySeccion(builder_rows)
  IN [s \in DOMAIN groups |->
        LET edges == CalculateEdgesVectorized(groups[s], groups[s][1].duracion_horas)
        IN {edges[k][3] : k \in {m \in DOMAIN edges : {edges[m][1], edges[m][2]} = {a, b}}}]

MaxOfSet(W) == CHOOSE w \in W : \A x \in W : x <= w

\* C15 (as claimed): a pair of students in contact in several class sessions of
\* the day has, in the daily graph and in the sparse network, the maximum of
\* its per-session weights.
C15_MaxOfSessionWeights ==
  \A a, b \in BuilderStudentIds :
    (a < b /\ Cardinality({s \in DOMAIN SessionWeights(a, b) :
                             SessionWeights(a, b)[s] # {}}) >= 2) =>
      /\ "build_daily_graph" \in builder_out.done =>
           /\ HasEdge(builder_out.graph, a, b)
           /\ EdgePeso(builder_out.graph, a, b)
                = MaxOfSet(UNION Range(SessionWeights(a, b)))
      /\ "build_sparse_daily_network" \in builder_out.done =>
           /\ {a, b} \subseteq DOMAIN builder_out.network.node_to_idx
           /\ Adj(builder_out.network.matrix, builder_out.network.node_to_idx[a],
                  builder_out.network.node_to_idx[b])
                = MaxOfSet(UNION Range(SessionWeights(a, b)))

\* C16 (as claimed): for the same day rows the daily graph and the sparse
\* network have the same nodes, the same undirected edges and the same weights.
C16_OutputModesAgree ==
  {"build_daily_graph", "build_sparse_daily_network"} \subseteq builder_out.done =>
    /\ Range(builder_out.graph.nodes) = DOMAIN builder_out.network.node_to_idx
    /\ {{e.u, e.v} : e \in Range(builder_out.graph.edges)}
         = {{builder_out.network.idx_to_node[p[1]], builder_out.network.idx_to_node[p[2]]} :
              p \in DOMAIN builder_out.network.matrix.data}
    /\ \A e \in Range(builder_out.graph.edges) :
         Adj(builder_out.network.matrix, builder_out.network.node_to_idx[e.u],
             builder_out.network.node_to_idx[e.v]) = e.peso

\* C17 (as claimed): every edge of the daily graph and every stored entry of
\* the sparse network has a weight above 0.
C17_PositiveWeights ==
  /\ \A e \in Range(builder_out.graph.edges) : e.peso > 0
  /\ \A p \in DOMAIN builder_out.network.matrix.data :
       builder_out.network.matrix.data[p] > 0

\* the ids of a request that are nodes of the network, up to position k
PresentUpTo(net, node_ids, k) ==
  {j \in 1 .. k : node_ids[j] \in DOMAIN net.node_to_idx}

\* C18: map_ids_to_indices returns the indices of the requested ids that are in
\* the network, in request order, and drops the others; in a run the infected
\* students absent from a day are not seeded that day and stay infected in the
\* global state.
C18_AbsentIdsDropped ==
  tick # NoTick =>
    /\ Len(tick.patient_zero_indices)
         = Cardinality(PresentUpTo(tick.network, tick.infectados_globales,
                                   Len(tick.infectados_globales)))
    /\ \A m \in DOMAIN tick.patient_zero_indices :
         \E k \in DOMAIN tick.infectados_globales :
           /\ tick.infectados_globales[k] \in DOMAIN tick.network.node_to_idx
           /\ Cardinality(PresentUpTo(tick.network, tick.infectados_globales, k)) = m
           /\ tick.patient_zero_indices[m]
                = tick.network.node_to_idx[tick.infectados_globales[k]]
    /\ \A i \in 0 .. tick.sim_before.num_nodes - 1 :
         tick.sim_before.states[i] = 1
           <=> tick.network.idx_to_node[i] \in Range(tick.infectados_globales)
    /\ \A sid \in Range(tick.infectados_globales) : global_states[sid] = 1

\* C18 witness: on a simulated day one infected student is in the day's network
\* and another infected student is not
C18_Witness ==
  /\ tick # NoTick
  /\ Len(tick.patient_zero_indices) >= 1
  /\ \E sid \in Range(tick.infectados_globales) :
       /\ sid \notin DOMAIN tick.network.node_to_idx
       /\ global_states[sid] = 1

\* C19 (as claimed): get_edge_count of a network built from an edge list is the
\* number of distinct unordered node pairs joined by an edge of the list,
\* whether or not a pair (u, u) is counted as one.
C19_EdgeCountIsPairCount ==
  (network_input.kind = "edges" /\ network.matrix # NoMatrix) =>
    GetEdgeCount(network) \in
      { Cardinality({{e[1], e[2]} : e \in Range(network_input.edges)}),
        Cardinality({{e[1], e[2]} : e \in {x \in Range(network_input.edges) : x[1] # x[2]}}) }

\* C20: every node newly infected on a day has exactly one transmission record
\* of that day, and the transmission count of the run is the sum of the
\* per-day numbers of new infections.
C20_OneRecordPerNewInfection ==
  /\ GetTransmissionCount(propagation_tree)
       = SumSeq([k \in DOMAIN infected_by_day |-> infected_by_day[k].nuevos_infectados])
  /\ GetTransmissionCount(propagation_tree) - tick.records_before = tick.num_nuevos
  /\ \A i \in Range(tick.new_indices) :
       Cardinality({k \in DOMAIN propagation_tree.targets :
                      /\ k > tick.records_before
                      /\ propagation_tree.targets[k] = tick.network.idx_to_node[i]
                      /\ propagation_tree.days[k] = tick.dia_nombre}) = 1

\* C20 witness: new infections on two days, two of them on the last day, one of
\* a node whose first neighbour in its row was not infected before the tick
C20_Witness ==
  /\ Len(infected_by_day) = 2
  /\ infected_by_day[1].nuevos_infectados > 0
  /\ tick.num_nuevos >= 2
  /\ \E i \in Range(tick.new_indices) :
       tick.sim_before.states[Head(RowIndices(tick.network.matrix, i))] = 0

\* C21: during a run the propagation graph has exactly one edge per recorded
\* transmission: its number of edges is get_transmission_count(), and the edge
\* source -> target of every record carries that record's weight and day.
C21_OneEdgePerTransmission ==
  /\ Cardinality(DOMAIN ArbolNx.edges) = GetTransmissionCount(propagation_tree)
  /\ \A k \in DOMAIN propagation_tree.sources :
       LET p == <<propagation_tree.sources[k], propagation_tree.targets[k]>>
       IN /\ p \in DOMAIN ArbolNx.edges
          /\ ArbolNx.edges[p].peso = propagation_tree.weights[k]
          /\ ArbolNx.edges[p].dia = propagation_tree.days[k]

\* C21 witness: record_transmissions ran on two days and left three records,
\* two of them with the same source
C21_Witness ==
  /\ GetTransmissionCount(propagation_tree) >= 3
  /\ \E k, m \in DOMAIN propagation_tree.days :
       propagation_tree.days[k] # propagation_tree.days[m]
  /\ \E k, m \in DOMAIN propagation_tree.sources :
       k # m /\ propagation_tree.sources[k] = propagation_tree.sources[m]

\* the connected components of the tree returned by the MST analysis
MstResultComponents ==
  ConnectedComponents(mst_results.mst.nodes, EdgePairs(mst_results.mst), {})

\* C22: for a disconnected input graph the MST analysis reports the number of
\* connected components of the input, and the returned graph has the node set
\* of the input (isolated nodes kept) and the same connected components: two
\* nodes are connected in it if and only if they are connected in the input.
C22_DisconnectedInput ==
  (mst_results # NoMstResults /\ Len(MstInputComponents) >= 2) =>
    /\ mst_results.num_componentes = Len(MstInputComponents)
    /\ Range(mst_results.mst.nodes) = Range(mst_graph.nodes)
    /\ Range(MstResultComponents) = Range(MstInputComponents)

\* C22 witness: two groups of two students, no contact between the groups, and
\* the analysis reported two components
C22_Witness ==
  /\ mst_results # NoMstResults
  /\ Len(MstInputComponents) = 2
  /\ \A k \in 1 .. 2 : Cardinality(MstInputComponents[k]) = 2
  /\ mst_results.num_componentes = 2

\* the total weight, in the input graph, of the edges numbered by T
InputWeightOf(T) ==
  SumSeq([k \in DOMAIN mst_graph.edges |-> IF k \in T THEN mst_graph.edges[k].peso ELSE 0])

\* the spanning trees of the component c of the input graph, as sets of edge numbers
SpanningTreesOf(c) ==
  LET inside == {k \in DOMAIN mst_graph.edges :
                   mst_graph.edges[k].u \in c /\ mst_graph.edges[k].v \in c}
  IN {T \in SUBSET inside :
        /\ Cardinality(T) = Cardinality(c) - 1
        /\ Reach({<<mst_graph.edges[k].u, mst_graph.edges[k].v>> : k \in T},
                 {CHOOSE x \in c : TRUE}) = c}

\* the total original weight of the returned tree's edges inside the component c
ResultWeightIn(c) ==
  LET inside == SelectSeq(mst_results.mst.edges, LAMBDA e : e.u \in c /\ e.v \in c)
  IN SumSeq([k \in DOMAIN inside |-> GraphPeso(mst_graph, inside[k].u, inside[k].v)])

\* C23: on a graph of positive weights, for every connected component, the tree
\* returned in the modes 'inverse' and 'negative' has the maximum total original
\* weight among the spanning trees of the component, and in the mode 'direct'
\* the minimum.
C23_ExtremalTotalWeight ==
  mst_results # NoMstResults =>
    \A c \in Range(MstInputComponents) :
      \A returned \in {ResultWeightIn(c)} :
        \A T \in SpanningTreesOf(c) :
          IF mst_mode \in {"inverse", "negative"}
          THEN returned >= InputWeightOf(T)
          ELSE returned <= InputWeightOf(T)

\* C23 witness: an analysis in the mode 'inverse' of a graph one of whose
\* components has spanning trees of different total weight
C23_Witness ==
  /\ mst_results # NoMstResults
  /\ mst_mode = "inverse"
  /\ \E c \in Range(MstInputComponents) :
       \E T1, T2 \in SpanningTreesOf(c) : InputWeightOf(T1) < InputWeightOf(T2)

\* C24: on a graph without nodes the three analyzers return their zero result
\* instead of raising (MST: empty tree, 0 components, 0 weights, 0 reduction
\* ratio; WCC: 0 components; centrality: empty ranking, max_spread 0), and
\* get_metrics accepts each of those results.
C24_EmptyGraphResults ==
  /\ (Len(analysis_input.G_dia.nodes) = 0 /\ all_results.daily # <<>>) =>
       all_results.daily.mst =
         [mst |-> [nodes |-> <<>>, edges |-> <<>>], num_componentes |-> 0,
          total_weight |-> 0, avg_weight |-> 0, critical_edges |-> <<>>,
          reduction_ratio |-> 0]
  /\ (Len(analysis_input.G_dia.nodes) = 0 /\ all_metrics.daily # <<>>) =>
       all_metrics.daily.mst =
         [nodes |-> 0, edges |-> 0, componentes |-> 0, total_weight |-> 0,
          avg_weight |-> 0, reduction_ratio |-> 0, critical_edges_count |-> 0,
          top_critical_edges |-> <<>>]
  /\ (Len(analysis_input.arbol_nx.nodes) = 0 /\ all_results.propagation # <<>>) =>
       /\ all_results.propagation.wcc =
            [num_componentes |-> 0, tamanos |-> <<>>, componente_gigante |-> 0,
             componentes |-> <<>>]
       /\ all_results.propagation.centrality = [top_spreaders |-> <<>>, max_spread |-> 0]
  /\ (Len(analysis_input.arbol_nx.nodes) = 0 /\ all_metrics.propagation # <<>>) =>
       /\ all_metrics.propagation.wcc =
            [num_componentes |-> 0, componente_gigante_size |-> 0,
             top_3_sizes |-> <<>>, fragmentacion_index |-> 0]
       /\ all_metrics.propagation.centrality = [max_spread |-> 0, top_5_spreaders |-> <<>>]

\* C24 witness: both coordinators analysed a graph without nodes and gave the
\* metrics of the results
C24_Witness ==
  /\ Len(analysis_input.G_dia.nodes) = 0
  /\ Len(analysis_input.arbol_nx.nodes) = 0
  /\ all_results.daily # <<>> /\ all_results.propagation # <<>>
  /\ all_metrics.daily # <<>> /\ all_metrics.propagation # <<>>

\* C25: the WCC analysis partitions the nodes of the graph, direction ignored:
\* the components are pairwise disjoint weakly connected sets that no edge
\* leaves, their union is the node set, the sizes sum to the node count and are
\* in non-increasing order, the component list is in that same order, and
\* componente_gigante is the first (largest) size.
C25_ComponentsPartition ==
  wcc_out # NoWcc =>
    /\ wcc_out.num_componentes = Len(wcc_out.componentes)
    /\ Len(wcc_out.tamanos) = Len(wcc_out.componentes)
    /\ \A k, m \in DOMAIN wcc_out.componentes :
         k # m => wcc_out.componentes[k] \cap wcc_out.componentes[m] = {}
    /\ UNION Range(wcc_out.componentes) = Range(wcc_graph.nodes)
    /\ \A k \in DOMAIN wcc_out.componentes :
         /\ wcc_out.componentes[k] # {}
         /\ \A x \in wcc_out.componentes[k] :
              Reach(DOMAIN wcc_graph.edges, {x}) = wcc_out.componentes[k]
         /\ wcc_out.tamanos[k] = Cardinality(wcc_out.componentes[k])
         /\ k > 1 => wcc_out.tamanos[k - 1] >= wcc_out.tamanos[k]
    /\ SumSeq(wcc_out.tamanos) = Len(wcc_graph.nodes)
    /\ Len(wcc_out.tamanos) > 0 => wcc_out.componente_gigante = wcc_out.tamanos[1]

\* C25 witness: the analysis met a component of one node before a component of
\* two nodes joined by a single directed edge
C25_Witness ==
  /\ wcc_out # NoWcc
  /\ wcc_out.num_componentes = 2
  /\ wcc_graph.nodes[1] \in wcc_out.componentes[2]
  /\ Cardinality(wcc_out.componentes[1]) = 2
  /\ Cardinality(DOMAIN wcc_graph.edges) = 1

\* the out-degree of n inside the component nodos of the analysed propagation graph
OutDegreeInside(nodos, n) ==
  Cardinality({p \in DOMAIN analysis_input.arbol_nx.edges : p[1] = n /\ p[2] \in nodos})

\* C26: with student data, the super_spreaders of every component are at most 3
\* distinct members of the component, listed with their out-degree inside the
\* component in non-increasing order, each of out-degree at least 1, and no
\* unlisted member has a larger out-degree than a listed one.
C26_SuperSpreaders ==
  (all_results.propagation # <<>>
     /\ "analisis_componentes" \in DOMAIN all_results.propagation.wcc) =>
    \A c \in DOMAIN all_results.propagation.wcc.analisis_componentes :
      LET nodos == all_results.propagation.wcc.componentes[c]
          listed == all_results.propagation.wcc.analisis_componentes[c].super_spreaders
          ids == {listed[k].id : k \in DOMAIN listed}
      IN /\ Len(listed) <= 3
         /\ Cardinality(ids) = Len(listed)
         /\ ids \subseteq nodos
         /\ \A k \in DOMAIN listed :
              /\ listed[k].contagios = OutDegreeInside(nodos, listed[k].id)
              /\ listed[k].contagios >= 1
              /\ k > 1 => listed[k - 1].contagios >= listed[k].contagios
              /\ \A n \in nodos \ ids : OutDegreeInside(nodos, n) <= listed[k].contagios

\* C26 witness: a component with more than three members of out-degree at least
\* 1, of which three are listed
C26_Witness ==
  /\ all_results.propagation # <<>>
  /\ "analisis_componentes" \in DOMAIN all_results.propagation.wcc
  /\ \E c \in DOMAIN all_results.propagation.wcc.analisis_componentes :
       /\ Len(all_results.propagation.wcc.analisis_componentes[c].super_spreaders) = 3
       /\ Cardinality({n \in all_results.propagation.wcc.componentes[c] :
                         OutDegreeInside(all_results.propagation.wcc.componentes[c], n) >= 1}) > 3

\* C27: the centrality analysis returns at most 10 distinct nodes of the
\* propagation graph with their out-degree, in non-increasing order of
\* out-degree; no omitted node has a larger out-degree than a returned one, and
\* max_spread is the maximum out-degree over all nodes (0 without nodes).
C27_TopSpreaders ==
  all_results.propagation # <<>> =>
    LET graph == analysis_input.arbol_nx
        top == all_results.propagation.centrality.top_spreaders
        ids == {top[k][1] : k \in DOMAIN top}
    IN /\ Len(top) <= 10
       /\ Cardinality(ids) = Len(top)
       /\ ids \subseteq Range(graph.nodes)
       /\ \A k \in DOMAIN top :
            /\ top[k][2] = OutDegree(graph, top[k][1])
            /\ k > 1 => top[k - 1][2] >= top[k][2]
            /\ \A n \in Range(graph.nodes) \ ids : OutDegree(graph, n) <= top[k][2]
       /\ \A n \in Range(graph.nodes) :
            OutDegree(graph, n) <= all_results.propagation.centrality.max_spread
       /\ \/ \E n \in Range(graph.nodes) :
               OutDegree(graph, n) = all_results.propagation.centrality.max_spread
          \/ graph.nodes = <<>> /\ all_results.propagation.centrality.max_spread = 0

\* C27 witness: a graph of more than 10 nodes, of which 10 are returned, one of
\* them not among the first 10 nodes of the graph
C27_Witness ==
  /\ all_results.propagation # <<>>
  /\ Len(analysis_input.arbol_nx.nodes) > 10
  /\ Len(all_results.propagation.centrality.top_spreaders) = 10
  /\ \E k \in 1 .. 10 : \E m \in 11 .. Len(analysis_input.arbol_nx.nodes) :
       all_results.propagation.centrality.top_spreaders[k][1] = analysis_input.arbol_nx.nodes[m]

\* the day of index d of the run is simulated: it has rows and its network has nodes
IsSimulatedDay(d) ==
  Len(df[d]) # 0 /\ GetNodeCount(BuildSparseDailyNetwork(df[d])) # 0

\* the days of the run handled so far that were simulated, in configured order:
\* those with rows whose network, as the cache holds it, has nodes
SimulatedDaysSoFar ==
  SelectSeq([d \in 1 .. NumDays |-> d],
            LAMBDA d : /\ d < dia
                       /\ Len(df[d]) # 0
                       /\ DiasSemana[d] \in DOMAIN network_cache.cache
                       /\ GetNodeCount(network_cache.cache[DiasSemana[d]]) # 0)

\* the trajectory lists the simulated days in order, numbered from 0 without
\* gaps, with the cumulative counts adding up
C28_TrajectoryEntries ==
  pc \in {"days", "done"} =>
    \A simulated \in {SimulatedDaysSoFar} :
      /\ Len(infected_by_day) = Len(simulated)
      /\ dia_numero = Len(infected_by_day)
      /\ \A k \in DOMAIN infected_by_day :
           /\ infected_by_day[k].dia = DiasSemana[simulated[k]]
           /\ infected_by_day[k].dia_numero = k - 1
           /\ infected_by_day[k].total_infectados =
                infected_by_day[k].nuevos_infectados
                  + (IF k = 1 THEN Cardinality(pacientes_cero)
                     ELSE infected_by_day[k - 1].total_infectados)
           /\ infected_by_day[k].total_infectados = Len(infected_by_day[k].infectados_ids)

\* a step of the loop over a day without rows or with a network without nodes
C28_SkippedDayStep ==
  /\ pc = "days" /\ dia <= NumDays /\ dia' = dia + 1
  /\ \/ Len(df[dia]) = 0
     \/ /\ DiasSemana[dia] \in DOMAIN network_cache'.cache
        /\ GetNodeCount(network_cache'.cache[DiasSemana[dia]]) = 0

\* C28: the trajectory of a run lists the simulated days in configured order
\* with the day indices 0, 1, 2, ... without gaps; the cumulative count of an
\* entry is the cumulative count of the entry before (for the first entry, the
\* number of patients zero) plus its new infections, and is the length of its
\* list of infected ids; a day without rows or with an empty network adds no
\* entry and changes neither the global states, nor the propagation record, nor
\* the day index.
C28_Trajectory ==
  /\ []C28_TrajectoryEntries
  /\ [][C28_SkippedDayStep =>
          UNCHANGED <<global_states, propagation_tree, infected_by_day, dia_numero>>]_vars

\* C28 witness: the first day had rows but an empty network and was skipped, the
\* second day was simulated with new infections and is the entry of index 0
C28_Witness ==
  /\ pc = "days" /\ dia = 3
  /\ Len(df[1]) # 0 /\ ~IsSimulatedDay(1)
  /\ Len(infected_by_day) = 1
  /\ infected_by_day[1].dia = DiasSemana[2]
  /\ infected_by_day[1].dia_numero = 0
  /\ infected_by_day[1].nuevos_infectados > 0

\* C29: after any sequence of initialize_infections and simulate_tick calls the
\* susceptible mask of the simulator is (states == 0), entry by entry.
C29_MaskIsStateZero ==
  \A i \in 0 .. sir_simulator.num_nodes - 1 :
    sir_simulator.susceptible_mask[i] = (sir_simulator.states[i] = 0)

\* C29 witness: initialize_infections was called with a seed on a simulator in
\* which a node outside the seed was infected
C29_Witness ==
  /\ sim_call.op = "initialize_infections"
  /\ sim_call.indices # <<>>
  /\ \E i \in 0 .. sir_simulator.num_nodes - 1 :
       /\ sim_call.before.states[i] = 1
       /\ sir_simulator.states[i] = 0

\* C30: simulate_tick changes the state of nodes that were susceptible before
\* the tick only: the returned indices are exactly the nodes whose state went
\* from 0 to 1, without repetition, the returned count is their number, no node
\* infected before the tick is returned, and every other node keeps its state.
C30_TickFrame ==
  sim_call.op = "simulate_tick" =>
    /\ Range(sim_call.new_indices) =
         {i \in 0 .. sir_simulator.num_nodes - 1 :
            sim_call.before.states[i] = 0 /\ sir_simulator.states[i] = 1}
    /\ sim_call.num = Len(sim_call.new_indices)
    /\ Cardinality(Range(sim_call.new_indices)) = Len(sim_call.new_indices)
    /\ \A i \in Range(sim_call.new_indices) : sim_call.before.states[i] = 0
    /\ \A i \in (0 .. sir_simulator.num_nodes - 1) \ Range(sim_call.new_indices) :
         sir_simulator.states[i] = sim_call.before.states[i]
    /\ sir_simulator.num_nodes = sim_call.before.num_nodes
    /\ sir_simulator.beta = sim_call.before.beta
    /\ sir_simulator.contact_matrix = sim_call.before.contact_matrix

\* C30 witness: a tick infected a node while a node infected before the tick had
\* an infected neighbour, so that its own probability was positive
C30_Witness ==
  /\ sim_call.op = "simulate_tick"
  /\ sim_call.num > 0
  /\ \E i \in 0 .. sir_simulator.num_nodes - 1 :
       /\ sim_call.before.states[i] = 1
       /\ TransmissionP(sim_call.before, i) > 0

\* C31: after initialize_infections(seed) the infected nodes are exactly the
\* seed indices, whatever the states were before the call; with an empty seed
\* every node is susceptible.  Nothing else of the simulator changes.
C31_SeedIsInfectedSet ==
  sim_call.op = "initialize_infections" =>
    /\ {i \in 0 .. sir_simulator.num_nodes - 1 : sir_simulator.states[i] = 1}
         = Range(sim_call.indices)
    /\ \A i \in 0 .. sir_simulator.num_nodes - 1 : sir_simulator.states[i] \in {0, 1}
    /\ (sim_call.indices = <<>> =>
          \A i \in 0 .. sir_simulator.num_nodes - 1 :
            sir_simulator.states[i] = 0 /\ sir_simulator.susceptible_mask[i])
    /\ sir_simulator.num_nodes = sim_call.before.num_nodes
    /\ sir_simulator.beta = sim_call.before.beta
    /\ sir_simulator.contact_matrix = sim_call.before.contact_matrix

\* C31 witness: an empty seed given to a simulator with a bound matrix in which
\* a node was infected
C31_Witness ==
  /\ sim_call.op = "initialize_infections"
  /\ sim_call.indices = <<>>
  /\ \E i \in 0 .. sir_simulator.num_nodes - 1 : sim_call.before.states[i] = 1
  /\ sim_call.before.contact_matrix # NoMatrix

\* the neighbours of a target in its adjacency row that are in the source set
SourceNeighbours(t) ==
  {j \in Range(tree_call.sources) : <<t, j>> \in DOMAIN tree_network.matrix.data}

\* C32: record_transmissions appends, for each target with a neighbour in the
\* source set and in the order of the targets, exactly one record: its source
\* is the neighbour of lowest index among those in the source set, its weight
\* the stored weight of that contact, its day the given day; a target without
\* a neighbour in the source set gets no record; the records held before the
\* call stay as they were, and the four lists have one length.
C32_FirstSourceNeighbour ==
  tree_call.op = "record_transmissions" =>
    LET before == tree_call.before
        served == SelectSeq(tree_call.targets, LAMBDA t : SourceNeighbours(t) # {})
        first(t) == CHOOSE j \in SourceNeighbours(t) : \A j2 \in SourceNeighbours(t) : j <= j2
        n0 == Len(before.sources)
    IN /\ Len(recorded_tree.sources) = n0 + Len(served)
       /\ Len(recorded_tree.targets) = Len(recorded_tree.sources)
       /\ Len(recorded_tree.weights) = Len(recorded_tree.sources)
       /\ Len(recorded_tree.days) = Len(recorded_tree.sources)
       /\ SubSeq(recorded_tree.sources, 1, n0) = before.sources
       /\ SubSeq(recorded_tree.targets, 1, n0) = before.targets
       /\ SubSeq(recorded_tree.weights, 1, n0) = before.weights
       /\ SubSeq(recorded_tree.days, 1, n0) = before.days
       /\ \A m \in DOMAIN served :
            /\ recorded_tree.targets[n0 + m] = tree_network.idx_to_node[served[m]]
            /\ recorded_tree.sources[n0 + m] = tree_network.idx_to_node[first(served[m])]
            /\ recorded_tree.weights[n0 + m] =
                 tree_network.matrix.data[<<served[m], first(served[m])>>]
            /\ recorded_tree.days[n0 + m] = tree_call.day_name

\* C32 witness: on a tree holding an earlier record, a call with two targets:
\* one without a neighbour in the source set, one with two neighbours in it of
\* which the one of lowest index has the lighter contact
C32_Witness ==
  /\ tree_call.op = "record_transmissions"
  /\ tree_call.before # NewPropagationTree
  /\ Len(tree_call.targets) = 2
  /\ \E m \in DOMAIN tree_call.targets : SourceNeighbours(tree_call.targets[m]) = {}
  /\ \E m \in DOMAIN tree_call.targets :
       \E j, j2 \in SourceNeighbours(tree_call.targets[m]) :
         /\ j < j2
         /\ tree_network.matrix.data[<<tree_call.targets[m], j>>]
              < tree_network.matrix.data[<<tree_call.targets[m], j2>>]

\* the distinct ids of the edge list given to build_from_edges
InputIds == {e[1] : e \in Range(network_input.edges)} \cup {e[2] : e \in Range(network_input.edges)}

\* C33: build_from_edges on a fresh network numbers the distinct ids of the
\* edge list 0 .. n-1 in ascending id order; node_to_idx and idx_to_node are
\* inverse bijections between those ids and 0 .. n-1, n is get_node_count() and
\* the adjacency is n by n; an empty edge list gives a network of 0 nodes and 0
\* edges with empty maps.
C33_IndexAssignment ==
  (network_input.kind = "edges" /\ network.matrix # NoMatrix) =>
    LET n == Cardinality(InputIds)
    IN /\ GetNodeCount(network) = n
       /\ DOMAIN network.node_to_idx = InputIds
       /\ DOMAIN network.idx_to_node = 0 .. n - 1
       /\ \A id \in InputIds :
            /\ network.node_to_idx[id] \in 0 .. n - 1
            /\ network.idx_to_node[network.node_to_idx[id]] = id
       /\ \A i \in 0 .. n - 1 : network.node_to_idx[network.idx_to_node[i]] = i
       /\ \A a, b \in InputIds :
            a < b => network.node_to_idx[a] < network.node_to_idx[b]
       /\ network.matrix.shape = n
       /\ \A q \in DOMAIN network.matrix.data : q[1] \in 0 .. n - 1 /\ q[2] \in 0 .. n - 1
       /\ (network_input.edges = <<>> =>
             /\ GetNodeCount(network) = 0
             /\ GetEdgeCount(network) = 0
             /\ network.node_to_idx = <<>> /\ network.idx_to_node = <<>>)

\* C33 witness: a built edge list that names a larger id before a smaller one
\* and leaves out an id between them
C33_Witness ==
  /\ network_input.kind = "edges" /\ network.matrix # NoMatrix
  /\ network_input.edges # <<>>
  /\ network_input.edges[1][1] > network_input.edges[1][2] + 1
  /\ network_input.edges[1][2] + 1 \notin InputIds

\* the sum of the weights of the edges of the given list that join u and v, in
\* either orientation
PairWeightSum(u, v) ==
  SumSeq([k \in DOMAIN network_input.edges |->
            IF {network_input.edges[k][1], network_input.edges[k][2]} = {u, v}
            THEN network_input.edges[k][3] ELSE 0])

\* the stored weight between the ids u and v
StoredWeight(u, v) == Adj(network.matrix, network.node_to_idx[u], network.node_to_idx[v])

\* the edge list build_sparse_daily_network passes to build_from_edges
PassedEdges == MergeMaxEdges(AllClassEdges(network_input.rows), <<>>)

\* what C34 says of two distinct ids of an edge list given to build_from_edges
C34_SumOfDuplicates ==
  (network_input.kind = "edges" /\ network.matrix # NoMatrix) =>
    \A u, v \in InputIds :
      (u # v /\ \E e \in Range(network_input.edges) : {e[1], e[2]} = {u, v}) =>
        /\ StoredWeight(u, v) = PairWeightSum(u, v)
        /\ StoredWeight(v, u) = PairWeightSum(u, v)

\* build_sparse_daily_network passes no pair twice
C34_NoRepeatedPairPassed ==
  (network_input.kind = "rows" /\ network.matrix # NoMatrix) =>
    \A k, m \in DOMAIN PassedEdges :
      {PassedEdges[k][1], PassedEdges[k][2]} = {PassedEdges[m][1], PassedEdges[m][2]} => k = m

\* C34 (as claimed): a pair given several times to build_from_edges is stored
\* with the sum of its weights, in both directions; build_sparse_daily_network
\* passes no pair twice, and the stored weight of every pair it passes is the
\* max-merged weight.
C34_StoredIsMaxMerged ==
  /\ C34_SumOfDuplicates
  /\ C34_NoRepeatedPairPassed
  /\ (network_input.kind = "rows" /\ network.matrix # NoMatrix) =>
       \A k \in DOMAIN PassedEdges :
         StoredWeight(PassedEdges[k][1], PassedEdges[k][2]) = PassedEdges[k][3]

\* C34, what the code does: as claimed for the pairs of two distinct ids; for a pair
\* (u, u) the two directed entries are one entry: its stored weight is twice
\* the sum of the weights given for it, and twice the max-merged weight when
\* it comes from build_sparse_daily_network.
C34_SumAndMaxPolicies ==
  /\ C34_SumOfDuplicates
  /\ C34_NoRepeatedPairPassed
  /\ (network_input.kind = "edges" /\ network.matrix # NoMatrix) =>
       \A u \in InputIds :
         (\E e \in Range(network_input.edges) : e[1] = u /\ e[2] = u) =>
           StoredWeight(u, u) = 2 * PairWeightSum(u, u)
  /\ (network_input.kind = "rows" /\ network.matrix # NoMatrix) =>
       \A k \in DOMAIN PassedEdges :
         StoredWeight(PassedEdges[k][1], PassedEdges[k][2]) =
           IF PassedEdges[k][1] = PassedEdges[k][2]
           THEN 2 * PassedEdges[k][3] ELSE PassedEdges[k][3]

\* C34 witness: an edge list holding one pair of distinct ids twice, once in
\* each orientation and with different weights, has been built
C34_Witness ==
  /\ network_input.kind = "edges" /\ network.matrix # NoMatrix
  /\ Len(network_input.edges) = 2
  /\ network_input.edges[1][1] # network_input.edges[1][2]
  /\ network_input.edges[2][1] = network_input.edges[1][2]
  /\ network_input.edges[2][2] = network_input.edges[1][1]
  /\ network_input.edges[1][3] # network_input.edges[2][3]

\* a step of a run that retrieves the network of the day from the cache
C35_CacheHitStep ==
  /\ pc = "days" /\ dia <= NumDays /\ dia' = dia + 1
  /\ DiasSemana[dia] \in DOMAIN network_cache.cache

\* C35: a network is immutable once cached.  No step of any run (the skipped
\* days, the simulated day with its set_contact_matrix, initialize_infections,
\* simulate_tick, id and index translations and record_transmissions, the end
\* of the run, the start of the next run) changes the adjacency matrix or the
\* id maps of a cached network or drops it, and the network a later run
\* simulates on for a day label is the one cached for that label.
C35_CachedNetworkImmutable ==
  [][/\ \A d \in DOMAIN network_cache.cache :
          /\ d \in DOMAIN network_cache'.cache
          /\ network_cache'.cache[d] = network_cache.cache[d]
     /\ (C35_CacheHitStep /\ tick' # tick) =>
          tick'.network = network_cache.cache[DiasSemana[dia]]]_vars

\* C35 witness: in a second run, a day found in the cache was simulated with
\* new infections recorded, on a network that is not the one the rows of that
\* day in this run would give
C35_Witness ==
  /\ simulations = 1 /\ pc = "days" /\ dia > 1
  /\ tick.dia_nombre = DiasSemana[dia - 1]
  /\ tick.num_nuevos > 0
  /\ GetTransmissionCount(propagation_tree) > 0
  /\ network_cache.cache_hits > 0
  /\ tick.network # BuildSparseDailyNetwork(df[dia - 1])

RECURSIVE Upstream(_)
\* the nodes met by following the recorded source links back from the nodes of S
Upstream(S) ==
  LET T == S \cup {propagation_tree.sources[k] :
                     k \in {m \in DOMAIN propagation_tree.targets :
                              propagation_tree.targets[m] \in S}}
  IN IF T = S THEN S ELSE Upstream(T)

\* C36 (as claimed): the propagation graph of a run is a forest rooted at the
\* patients zero: following the source links from a recorded target reaches a
\* patient zero, no node is its own ancestor, and no patient zero is a target.
C36_ForestRootedAtPatientsZero ==
  \A k \in DOMAIN propagation_tree.targets :
    /\ propagation_tree.targets[k] \notin pacientes_cero
    /\ Upstream({propagation_tree.targets[k]}) \cap pacientes_cero # {}
    /\ propagation_tree.targets[k] \notin Upstream({propagation_tree.sources[k]})

\* C36, what the code does: no patient zero is ever a target, and no student
\* is a target twice
C36_TargetsOnceAndNeverPatientZero ==
  \A k \in DOMAIN propagation_tree.targets :
    /\ propagation_tree.targets[k] \notin pacientes_cero
    /\ \A m \in DOMAIN propagation_tree.targets :
         propagation_tree.targets[m] = propagation_tree.targets[k] => m = k

\* the contact network of the day of record k: the one cached for that day
RecordNetwork(k) == network_cache.cache[propagation_tree.days[k]]

\* C37: every recorded transmission joins two students of the contact network
\* of the recorded day that have a stored contact there, and its weight is
\* that network's adjacency weight between source and target.
C37_RecordedContact ==
  \A k \in DOMAIN propagation_tree.sources :
    /\ propagation_tree.days[k] \in DOMAIN network_cache.cache
    /\ propagation_tree.sources[k] \in DOMAIN RecordNetwork(k).node_to_idx
    /\ propagation_tree.targets[k] \in DOMAIN RecordNetwork(k).node_to_idx
    /\ LET i == RecordNetwork(k).node_to_idx[propagation_tree.sources[k]]
           j == RecordNetwork(k).node_to_idx[propagation_tree.targets[k]]
       IN /\ <<i, j>> \in DOMAIN RecordNetwork(k).matrix.data
          /\ <<j, i>> \in DOMAIN RecordNetwork(k).matrix.data
          /\ propagation_tree.weights[k] = Adj(RecordNetwork(k).matrix, i, j)
          /\ propagation_tree.weights[k] = Adj(RecordNetwork(k).matrix, j, i)

\* C37 witness: transmissions of two days are recorded, and the source of one
\* of them is not the first stored neighbour of its target, whose contact
\* with the target has another weight
C37_Witness ==
  /\ \E k, m \in DOMAIN propagation_tree.days :
       propagation_tree.days[k] # propagation_tree.days[m]
  /\ \E k \in DOMAIN propagation_tree.sources :
       LET j == RecordNetwork(k).node_to_idx[propagation_tree.targets[k]]
           first == Head(RowIndices(RecordNetwork(k).matrix, j))
       IN /\ RecordNetwork(k).idx_to_node[first] # propagation_tree.sources[k]
          /\ RecordNetwork(k).matrix.data[<<j, first>>] # propagation_tree.weights[k]

\* C38: after any sequence of get_or_build and clear_cache calls the miss
\* counter is the number of cached day labels, and the builder has been called
\* exactly once for each label cached since the last reset.
C38_MissesAreCachedLabels ==
  /\ cache_manager.cache_misses = Cardinality(DOMAIN cache_manager.cache)
  /\ GetCacheStats(cache_manager).misses = GetCacheStats(cache_manager).cached_days
  /\ DOMAIN cache_log.builds = DOMAIN cache_manager.cache
  /\ \A d \in DOMAIN cache_manager.cache : cache_log.builds[d] = 1

\* C38 witness: after a reset, a call for a label built since the reset made no
\* call to the builder while another label had not been requested
C38_Witness ==
  /\ cache_log.clears >= 1
  /\ cache_call.op = "get_or_build"
  /\ cache_call.builder_calls = 0
  /\ cache_log.builds[cache_call.dia_nombre] = 1
  /\ DOMAIN cache_manager.cache # CacheLabels

\* C39: build_from_edges on an instance that was built before gives the node
\* count, the id maps and the adjacency of a build on a fresh instance with the
\* same edge list, the empty list included.
C39_RebuildAsFresh ==
  network_input.kind = "edges"
    => network = BuildFromEdges(NewSparseContactNetwork, network_input.edges)

\* C39, what the code does: the node count and the matrix are those of a fresh
\* build, the ids and indices of the last list are mapped as in a fresh build,
\* and the maps are never emptied, so entries of earlier builds stay
C39_CountAndMatrixAsFresh ==
  network_input.kind = "edges" =>
    \A fresh \in {BuildFromEdges(NewSparseContactNetwork, network_input.edges)} :
      /\ network.num_nodes = fresh.num_nodes
      /\ network.matrix = fresh.matrix
      /\ \A id \in DOMAIN fresh.node_to_idx :
           id \in DOMAIN network.node_to_idx
           /\ network.node_to_idx[id] = fresh.node_to_idx[id]
      /\ \A i \in DOMAIN fresh.idx_to_node :
           i \in DOMAIN network.idx_to_node
           /\ network.idx_to_node[i] = fresh.idx_to_node[i]

\* C39 witness: a build from the empty list on an instance built before: no
\* node, an empty matrix, and ids still mapped
C39_Witness ==
  /\ network_input.kind = "edges"
  /\ network_input.edges = <<>>
  /\ network.num_nodes = 0
  /\ DOMAIN network.node_to_idx # {}
  /\ DOMAIN network.idx_to_node # {}

====
